---------------------------- MODULE Spec2Model ----------------------------
(***************************************************************************)
(* Chat server (ChatServer / ChatSession), its packet codec and the        *)
(* ChatClient, as a state machine.  Strings and buffers are sequences of   *)
(* byte values; every asynchronous completion handler is one action.       *)
(***************************************************************************)
EXTENDS Integers, Sequences, FiniteSets, TLC

(***************************************************************************)
(* Bounds of the model.                                                    *)
(***************************************************************************)
MaxSessions == 3
\* connections in the runs whose peers send every payload
WideSessions == 2
\* payloads read in a run, over all sessions
MaxReads == 3
\* error codes and oversize headers the environment produces in a run
MaxFaults == 2
\* error codes and oversize headers in the runs with a ChatClient
LinkFaults == 1
\* payloads the raw peer sends in the runs with a ChatClient
LinkReads == 1
\* payloads and frames the raw peers send in the runs with a raw server
PeerReads == 3
\* connections made to the server in the runs with a raw server
PeerSessions == 1

\* connections, payloads and failures in the runs that stop the server
StopSessions == 2
StopReads == 2
StopFaults == 1

\* payloads the raw peers send in the runs that follow a reply to the socket
ReplyReads == 2

\* the longest string field in the runs of the codec
MaxStrLen == 2

\* payloads the raw peer sends in the runs with a client that is a guest
GuestReads == 3

Sessions == 1..MaxSessions

(***************************************************************************)
(* Program constants.                                                      *)
(***************************************************************************)
Login == 0
CreateUser == 1
ChatMessage == 2
LoginSuccess == 3
LoginFailed == 4
AccountCreated == 5
AccountExists == 6

MAX_FRAME_BYTES == 1048576

\* "System"
SYSTEM == <<83, 121, 115, 116, 101, 109>>
\* " has joined the chat."
HAS_JOINED == <<32, 104, 97, 115, 32, 106, 111, 105, 110, 101, 100, 32,
                116, 104, 101, 32, 99, 104, 97, 116, 46>>
\* " has left the chat."
HAS_LEFT == <<32, 104, 97, 115, 32, 108, 101, 102, 116, 32,
              116, 104, 101, 32, 99, 104, 97, 116, 46>>

(***************************************************************************)
(* Inputs: the strings the peers put into their packets.                   *)
(***************************************************************************)
Names == {<<>>, <<97>>}
Passwords == {<<120>>, <<121>>}
Texts == {<<104>>, <<105>>}
Senders == {<<97>>, <<122>>}
\* ChatClient::name_, the name the client was constructed with
name_ == <<122>>

\* what an out-of-bounds read may find in memory
Garbage == {<<>>, <<63>>}

(***************************************************************************)
(* Packets (packet.hh).                                                    *)
(***************************************************************************)
LoginPacket(u, p) == [type |-> Login, username |-> u, password |-> p]
CreateUserPacket(u, p) == [type |-> CreateUser, username |-> u, password |-> p]
ChatMessagePacket(s, m) == [type |-> ChatMessage, sender |-> s, message |-> m]
LoginSuccessPacket == [type |-> LoginSuccess]
LoginFailedPacket == [type |-> LoginFailed]
AccountCreatedPacket == [type |-> AccountCreated]
AccountExistsPacket == [type |-> AccountExists]

\* a uint32 in native (little-endian) byte order
LE32(n) == <<n % 256, (n \div 256) % 256, (n \div 65536) % 256,
             (n \div 16777216) % 256>>

\* static_cast<uint32_t>: the low 32 bits, taken as two 16-bit halves
U32(n) == (n % 65536) + 65536 * ((n \div 65536) % 65536)

writeToBuffer32(buffer, value) == buffer \o LE32(U32(value))

writeToBuffer8(buffer, value) == Append(buffer, value % 256)

\* a writeString that writes the length as one byte
writeString_short_length(buffer, str) ==
    writeToBuffer8(buffer, Len(str)) \o str

writeString(buffer, str) == writeToBuffer32(buffer, Len(str)) \o str

\* Packet::serialize: appends to buffer; the byte count is the growth
serialize(buffer, p) ==
    IF p.type \in {Login, CreateUser}
    THEN writeString(writeString(writeToBuffer8(buffer, p.type), p.username),
                     p.password)
    ELSE IF p.type = ChatMessage
    THEN writeString(writeString(writeToBuffer8(buffer, p.type), p.sender),
                     p.message)
    ELSE writeToBuffer8(buffer, p.type)

\* a frame whose size field counts the four bytes of the size as well
preparePacketForSending_counting_header(p) ==
    LET placeholder == writeToBuffer32(<<>>, 0)
        result == serialize(placeholder, p)
    IN  LE32(U32(Len(result))) \o SubSeq(result, 5, Len(result))

\* Packet::preparePacketForSending
preparePacketForSending(p) ==
    LET placeholder == writeToBuffer32(<<>>, 0)
        result == serialize(placeholder, p)
        packetSize == Len(result) - Len(placeholder)
    IN  LE32(U32(packetSize)) \o SubSeq(result, 5, Len(result))

\* readFromBuffer<uint32_t> at a 0-based offset that lies inside the buffer
readFromBuffer32(buffer, offset) ==
    buffer[offset + 1] + 256 * buffer[offset + 2] + 65536 * buffer[offset + 3]
    + 16777216 * buffer[offset + 4]

\* readString: the string and the new offset, or "ub" when the length field
\* or the bytes it announces lie outside the buffer (the code reads them
\* without a bounds check)
readString(buffer, offset) ==
    IF offset + 4 > Len(buffer) THEN [ub |-> TRUE]
    \* a length of 2^31 or more: no buffer holds that many bytes
    ELSE IF buffer[offset + 4] >= 128 THEN [ub |-> TRUE]
    ELSE LET length == readFromBuffer32(buffer, offset)
         IN  IF length > Len(buffer) - offset - 4 THEN [ub |-> TRUE]
             ELSE [ub |-> FALSE,
                   str |-> SubSeq(buffer, offset + 5, offset + 4 + length),
                   offset |-> offset + 4 + length]

\* results of createPacketFromData: a packet, nullptr, or the process ending
Parsed(p) == [res |-> "packet", pkt |-> p]
NoPacket == [res |-> "null"]
Crash == [res |-> "crash"]

\* deserialize of the two-string packets: the outcomes of reading the two
\* fields; an out-of-bounds read yields any string, or ends the process
TwoStrings(data) ==
    LET r1 == readString(data, 1)
    IN  IF r1.ub
        THEN {[crash |-> TRUE]}
             \cup {[crash |-> FALSE, a |-> x, b |-> y] : x \in Garbage, y \in Garbage}
        ELSE LET r2 == readString(data, r1.offset)
             IN  IF r2.ub
                 THEN {[crash |-> TRUE]}
                      \cup {[crash |-> FALSE, a |-> r1.str, b |-> y] : y \in Garbage}
                 ELSE {[crash |-> FALSE, a |-> r1.str, b |-> r2.str]}

\* a createPacketFromData whose switch has no default case
createPacketFromData_no_default(data) ==
    IF data = <<>> THEN {NoPacket}
    ELSE LET type == data[1]
         IN  IF type \in {Login, CreateUser}
             THEN {IF f.crash THEN Crash
                   ELSE Parsed([type |-> type, username |-> f.a,
                                password |-> f.b]) : f \in TwoStrings(data)}
             ELSE IF type = ChatMessage
             THEN {IF f.crash THEN Crash
                   ELSE Parsed(ChatMessagePacket(f.a, f.b)) :
                   f \in TwoStrings(data)}
             ELSE {Parsed([type |-> type])}

\* createPacketFromData: the set of results the call can have
createPacketFromData(data) ==
    IF data = <<>> THEN {NoPacket}
    ELSE LET type == data[1]
         IN  IF type \in {Login, CreateUser}
             THEN {IF f.crash THEN Crash
                   ELSE Parsed([type |-> type, username |-> f.a, password |-> f.b]) :
                   f \in TwoStrings(data)}
             ELSE IF type = ChatMessage
             THEN {IF f.crash THEN Crash
                   ELSE Parsed(ChatMessagePacket(f.a, f.b)) : f \in TwoStrings(data)}
             ELSE IF type \in {LoginSuccess, LoginFailed, AccountCreated,
                               AccountExists}
             THEN {Parsed([type |-> type])}
             ELSE {NoPacket}

\* the free function preparePacketForSending of chat-example/packet.hh
preparePacketForSendingCopy(p) ==
    LET serialized == serialize(<<>>, p)
        size == U32(Len(serialized))
    IN  LE32(size) \o serialized

(***************************************************************************)
(* What a peer that speaks the raw protocol (the tests' TestClient) can    *)
(* put on the wire: the serialized payload of every packet over the input  *)
(* strings, and payloads that are no packet.                               *)
(***************************************************************************)
Payload(p) == serialize(<<>>, p)

WellFormed ==
    {Payload(LoginPacket(u, p)) : u \in Names, p \in Passwords}
    \cup {Payload(CreateUserPacket(u, p)) : u \in Names, p \in Passwords}
    \cup {Payload(ChatMessagePacket(s, m)) : s \in Senders, m \in Texts}
    \cup {<<LoginSuccess>>, <<LoginFailed>>, <<AccountCreated>>, <<AccountExists>>}

\* empty payload, unknown tag, a chat message cut after its tag, a login
\* cut after its first string
Malformed ==
    {<<>>, <<9>>, <<ChatMessage>>, <<Login, 1, 0, 0, 0, 97>>}

Payloads == WellFormed \cup Malformed


(***************************************************************************)
(* State.                                                                  *)
(***************************************************************************)
VARIABLES
    participants_,       \* ChatServer: the registry, a set of sessions
    user_credentials_,   \* ChatServer: username -> password
    accept_pending,      \* ChatServer: an async_accept is outstanding
    crashed,             \* the server process has ended abnormally
    alive,               \* sessions constructed so far
    username_,           \* ChatSession::username_
    next_packet_size_,   \* ChatSession::next_packet_size_
    write_msgs_,         \* ChatSession::write_msgs_, a deque of frames
    rd,                  \* the session's outstanding read: none, header, body
    wr,                  \* the session's outstanding async_write operations
    writing,             \* the buffer the session's async_write was given
    handled,             \* the payload given to handle_packet by the last step
    recording,           \* history: the run records enq, wire, relays
    menu,                \* the payloads the raw peers send in this run
    session_limit,       \* the connections made to the server in this run
    read_limit,          \* how many payloads the raw peers send in this run
    fault_limit,         \* how many operations fail in this run
    plan,                \* the requests the application makes of the client
    raw_server,          \* the host the client connects to is a raw peer,
                         \* not the ChatServer
    enq,                 \* history: per session, what deliver() was given
    wire,                \* history: per session, the frames written out
    relays,              \* history: the chat broadcasts, in order
    created_log,         \* history: the <<username, password>> of every
                         \* CreateUser answered AccountCreated
    nread,               \* history: per session, the payloads read so far
    rlog,                \* history: per session, the reads issued, how each
                         \* ended and the bodies given to handle_packet
    reads,               \* payloads read from raw peers so far
    faults,              \* error completions and oversize headers so far
    socket_,             \* ChatClient::socket_: none, open, closed
    connecting,          \* ChatClient: an async_connect is outstanding
    closed_,             \* ChatClient::closed_
    logged_in_,          \* ChatClient::logged_in_
    account_created_,    \* ChatClient::account_created_
    client_write_msgs_,  \* ChatClient::write_msgs_, a deque of frames
    client_next_packet_size_,   \* ChatClient::next_packet_size_
    client_rd,           \* the client's outstanding read: none, header, body,
                         \* aborted (cancelled by close(), handler not yet run)
    client_wr,           \* the client's outstanding async_write operations
    client_writing,      \* the buffer the client's async_write was given
    client_done,         \* the client's operations (read, write) that have
                         \* completed with success and whose handler waits
                         \* in the io_context
    client_session,      \* the session the server made for the client, or 0
    backlog,             \* the client's connection waits to be accepted
    c2s,                 \* bytes the client wrote that the server has not read
    s2c,                 \* bytes the server wrote that the client has not read
    client_enq,          \* history: the frames ChatClient::write was given
    client_wire,         \* history: the frames the client wrote out
    emitted,             \* history: the Connect requests the client handled
                         \* and the notifications it emitted, in order
    calls,               \* requests made to the client so far
    client_rlog,         \* history: the reads the client issued, how each
                         \* ended and the bodies given to handle_packet
    stop_flag_,          \* ChatServer::stop_flag_
    acceptor_open,       \* ChatServer::acceptor_ has not been closed
    accepting,           \* the accept handler has passed its test of
                         \* stop_flag_ and not yet inserted the session
    stop_pc,             \* the thread that calls ChatServer::stop(): idle,
                         \* flag, close, move, post, run, done (the last
                         \* statement of stop() it has executed)
    participants,        \* ChatServer::stop: the local set participants
    posted,              \* sessions whose stop request waits in the io_context
    stopped,             \* sessions whose ChatSession::stop() has run
    at_stop,             \* history: the registry when stop() was called
    original,            \* codec: the packet given to preparePacketForSending
    bytes,               \* codec: the frame made of it, then the payload
    created,             \* codec: what createPacketFromData returned
    codec_pc,            \* codec: packet, frame, payload, done; or off
    client_stop_pc,      \* the thread that calls ChatClient::stop(): idle,
                         \* emit, stop, done (the last statement of stop()
                         \* it has executed)
    close_posted,        \* the slot of Close that stop() posted waits in the
                         \* client's io_context
    io_stopped           \* ChatClient::io_context_ has been stopped

srvVars == <<participants_, user_credentials_, accept_pending, crashed>>
sessVars == <<alive, username_, next_packet_size_, write_msgs_, rd, wr,
             writing>>
envVars == <<recording, menu, session_limit, read_limit, fault_limit, plan,
            raw_server>>
histVars == <<envVars, enq, wire, relays, created_log, nread, rlog>>
budgetVars == <<reads, faults>>
clientVars == <<socket_, connecting, closed_, logged_in_, account_created_,
                client_write_msgs_, client_next_packet_size_, client_rd,
                client_wr, client_writing, client_done>>
linkVars == <<client_session, backlog, c2s, s2c>>
clientHist == <<client_enq, client_wire, emitted, calls, client_rlog>>
stopVars == <<stop_flag_, acceptor_open, accepting, stop_pc, participants,
             posted, stopped, at_stop>>
codecVars == <<original, bytes, created, codec_pc>>
ioVars == <<client_stop_pc, close_posted, io_stopped>>
serverSide == <<srvVars, sessVars, handled, histVars, stopVars, codecVars,
                ioVars>>
vars == <<srvVars, sessVars, handled, histVars, budgetVars, clientVars,
          linkVars, clientHist, stopVars, codecVars, ioVars>>

\* a thread that runs the io_context can take the next handler: the io
\* thread when it is not inside the accept handler, or the thread inside
\* the io_context_.run() of ChatServer::stop
IoFree == ~accepting \/ stop_pc = "run"

\* the bounds on what the environment may still do
MayRead == reads < read_limit
MayFail == faults < fault_limit
MayCall == calls < Len(plan) /\ ~io_stopped

\* the request the client handles next
NextCall == plan[calls + 1]

(***************************************************************************)
(* The write pipeline of the sessions, as a value the handlers thread      *)
(* through their calls: q the queues, w the outstanding writes, e the      *)
(* history of deliver() calls.                                             *)
\* std::deque::push_back at the wrong end
push_front(q, frame) == <<frame>> \o q

\* std::deque::push_back, as used on the write queues
push_back(q, frame) == Append(q, frame)

\* a pop at the wrong end
pop_back(q) == SubSeq(q, 1, Len(q) - 1)

\* std::deque::pop_front
pop_front(q) == Tail(q)

(***************************************************************************)
IoNow == [q |-> write_msgs_, w |-> wr, b |-> writing, e |-> enq]

\* the history of reads with these events added: connected (a connection
\* of the client begins), read_header and read_body (an async_read is
\* issued), header and body (it completed with no error), oversize (a
\* header over the limit), error, cancelled (by a close of the socket),
\* dispatch (the body is given to handle_packet)
note(log, events) == IF recording THEN log \o events ELSE log

\* an entry of the history: the frame, the session whose handler delivered
\* it, the number of the payload handled (0: none) and the handler's case
Entry(frame, tag) ==
    [frame |-> frame, src |-> tag[1], k |-> tag[2], cause |-> tag[3]]

\* ChatSession::do_write: async_write is given write_msgs_.front()
do_write(io, s) ==
    [io EXCEPT !.w[s] = @ + 1, !.b[s] = Head(io.q[s])]

\* the queue and the history of deliver(), before it looks at the flag
queued(io, s, frame, tag) ==
    [io EXCEPT !.q[s] = push_back(@, frame),
               !.e = IF recording
                     THEN [io.e EXCEPT ![s] = Append(@, Entry(frame, tag))]
                     ELSE io.e]

\* a deliver that starts a write whether or not one is in progress
deliver_always_writing(io, s, packet, tag) ==
    do_write(queued(io, s, preparePacketForSending(packet), tag), s)

\* ChatSession::deliver
deliver(io, s, packet, tag) ==
    LET frame == preparePacketForSending(packet)
        write_in_progress == io.q[s] # <<>>
    IN  IF write_in_progress
        THEN queued(io, s, frame, tag)
        ELSE do_write(queued(io, s, frame, tag), s)

RECURSIVE broadcastTo(_, _, _, _)
broadcastTo(io, targets, packet, tag) ==
    IF targets = {} THEN io
    ELSE LET t == CHOOSE x \in targets : \A y \in targets : x <= y
         IN  broadcastTo(deliver(io, t, packet, tag), targets \ {t}, packet, tag)

\* a broadcast that does not leave out the sender
recipients_all(registry, sender) == registry

\* a broadcast to the sessions that have logged in
recipients_logged_in(registry, sender) ==
    {p \in registry : p # sender /\ username_[p] # <<>>}

\* the sessions a broadcast delivers to
recipients(registry, sender) == {p \in registry : p # sender}

\* a broadcast that also fills the queues of the sessions still to come
broadcast_to_all_sessions(io, registry, packet, sender, tag) ==
    broadcastTo(io, Sessions \ {sender}, packet, tag)

\* ChatServer::broadcast
broadcast(io, registry, packet, sender, tag) ==
    broadcastTo(io, recipients(registry, sender), packet, tag)

\* an authentication that looks at the username only
authenticate_user_any_password(credentials, username, password) ==
    username \in DOMAIN credentials

\* ChatServer::authenticate_user
authenticate_user(credentials, username, password) ==
    username \in DOMAIN credentials /\ credentials[username] = password

\* an account creation that stores the password of a refused request
create_user_overwrite(credentials, username, password) ==
    [success |-> username \notin DOMAIN credentials,
     credentials |-> [x \in DOMAIN credentials \cup {username} |->
                         IF x = username THEN password ELSE credentials[x]]]

\* ChatServer::create_user: the result and the new store
create_user(credentials, username, password) ==
    IF username \notin DOMAIN credentials
    THEN [success |-> TRUE,
          credentials |-> [x \in DOMAIN credentials \cup {username} |->
                              IF x = username THEN password ELSE credentials[x]]]
    ELSE [success |-> FALSE, credentials |-> credentials]

\* a relay that keeps the sender the client wrote
broadcast_packet_trusting(sender_name, chat_message_packet) ==
    ChatMessagePacket(chat_message_packet.sender, chat_message_packet.message)

\* the packet the server relays for a chat message of a logged-in session
broadcast_packet(sender_name, chat_message_packet) ==
    ChatMessagePacket(sender_name, chat_message_packet.message)

\* a join message with the text of the leave message
join_msg_left(username) == ChatMessagePacket(SYSTEM, username \o HAS_LEFT)

\* the system message for a login
join_msg(username) == ChatMessagePacket(SYSTEM, username \o HAS_JOINED)

\* the system message for a session that leaves
left_msg(username) == ChatMessagePacket(SYSTEM, username \o HAS_LEFT)

\* what a handler run leaves behind: the write pipeline, the usernames, the
\* credential store and the chat broadcast made, if any
Outcome(io, username, credentials, relay) ==
    [io |-> io, username |-> username, credentials |-> credentials,
     relay |-> relay]

\* a login that sets the username before it looks at the result
handle_login_sets_name(sender, packet, tag) ==
    IF authenticate_user(user_credentials_, packet.username, packet.password)
    THEN Outcome(broadcast(deliver(IoNow, sender, LoginSuccessPacket, tag),
                           participants_, join_msg(packet.username), sender, tag),
                 [username_ EXCEPT ![sender] = packet.username],
                 user_credentials_, <<>>)
    ELSE Outcome(deliver(IoNow, sender, LoginFailedPacket, tag),
                 [username_ EXCEPT ![sender] = packet.username],
                 user_credentials_, <<>>)

\* case PacketType::Login
handle_login(sender, packet, tag) ==
    IF authenticate_user(user_credentials_, packet.username, packet.password)
    THEN Outcome(broadcast(deliver(IoNow, sender, LoginSuccessPacket, tag),
                           participants_, join_msg(packet.username), sender, tag),
                 [username_ EXCEPT ![sender] = packet.username],
                 user_credentials_, <<>>)
    ELSE Outcome(deliver(IoNow, sender, LoginFailedPacket, tag),
                 username_, user_credentials_, <<>>)

\* an account creation that also logs the session in
handle_create_user_autologin(sender, packet, tag) ==
    LET c == create_user(user_credentials_, packet.username, packet.password)
    IN  IF c.success
        THEN Outcome(deliver(IoNow, sender, AccountCreatedPacket, tag),
                     [username_ EXCEPT ![sender] = packet.username],
                     c.credentials, <<>>)
        ELSE Outcome(deliver(IoNow, sender, AccountExistsPacket, tag),
                     username_, c.credentials, <<>>)

\* case PacketType::CreateUser
handle_create_user(sender, packet, tag) ==
    LET c == create_user(user_credentials_, packet.username, packet.password)
    IN  IF c.success
        THEN Outcome(deliver(IoNow, sender, AccountCreatedPacket, tag),
                     username_, c.credentials, <<>>)
        ELSE Outcome(deliver(IoNow, sender, AccountExistsPacket, tag),
                     username_, c.credentials, <<>>)

\* a chat handler without the check of the username
handle_chat_message_no_auth(sender, packet, tag) ==
    Outcome(broadcast(IoNow, participants_,
                      broadcast_packet(username_[sender], packet), sender, tag),
            username_, user_credentials_, <<>>)

\* case PacketType::ChatMessage
handle_chat_message(sender, packet, tag) ==
    LET sender_name == username_[sender]
    IN  IF sender_name = <<>>
        THEN Outcome(deliver(IoNow, sender, LoginFailedPacket, tag),
                     username_, user_credentials_, <<>>)
        ELSE Outcome(broadcast(IoNow, participants_,
                               broadcast_packet(sender_name, packet), sender, tag),
                     username_, user_credentials_,
                     IF recording
                     THEN <<[src |-> sender, k |-> tag[2],
                             rcpt |-> participants_ \ {sender}]>>
                     ELSE <<>>)

\* a handle_packet that answers what it does not expect with LoginFailed
handle_packet_answering(sender, packet, tag) ==
    IF packet.type = Login THEN handle_login(sender, packet, tag)
    ELSE IF packet.type = CreateUser THEN handle_create_user(sender, packet, tag)
    ELSE IF packet.type = ChatMessage THEN handle_chat_message(sender, packet, tag)
    ELSE Outcome(deliver(IoNow, sender, LoginFailedPacket, tag),
                 username_, user_credentials_, <<>>)

\* ChatServer::handle_packet for a parsed packet
handle_packet(sender, packet, tag) ==
    IF packet.type = Login THEN handle_login(sender, packet, tag)
    ELSE IF packet.type = CreateUser THEN handle_create_user(sender, packet, tag)
    ELSE IF packet.type = ChatMessage THEN handle_chat_message(sender, packet, tag)
    ELSE Outcome(IoNow, username_, user_credentials_, <<>>)

\* a leave that announces every session, logged in or not
leave_announcing_all(participant) ==
    LET registry == participants_ \ {participant}
    IN  [registry |-> registry,
         io |-> broadcast(IoNow, registry, left_msg(username_[participant]),
                          participant, <<participant, 0, "leave">>)]

\* ChatServer::leave: the new registry and write pipeline
leave(participant) ==
    LET registry == participants_ \ {participant}
        username == username_[participant]
    IN  [registry |-> registry,
         io |-> IF username # <<>>
                THEN broadcast(IoNow, registry, left_msg(username), participant,
                               <<participant, 0, "leave">>)
                ELSE IoNow]

\* the value of handled after a step that handles no payload
NotHandled == [s |-> 0]

\* what handle_packet finds when it starts
Before ==
    [username |-> username_, credentials |-> user_credentials_,
     registry |-> participants_, q |-> write_msgs_, w |-> wr, rd |-> rd,
     created_log |-> created_log]

\* what the codec runs hold where there is no packet or no result
NoOriginal == [absent |-> TRUE]
NoResult == [res |-> "none"]

\* the runs of the server and the client do not use the codec's variables
CodecOff ==
    /\ original = NoOriginal
    /\ bytes = <<>>
    /\ created = NoResult
    /\ codec_pc = "off"

(***************************************************************************)
(* Initial state: ChatServer constructed, do_accept() issued.              *)
(***************************************************************************)
InitServer ==
    /\ participants_ = {}
    /\ user_credentials_ = [x \in {} |-> <<>>]
    /\ accept_pending = TRUE
    /\ crashed = FALSE
    /\ alive = {}
    /\ username_ = [s \in Sessions |-> <<>>]
    /\ next_packet_size_ = [s \in Sessions |-> 0]
    /\ write_msgs_ = [s \in Sessions |-> <<>>]
    /\ rd = [s \in Sessions |-> "none"]
    /\ wr = [s \in Sessions |-> 0]
    /\ writing = [s \in Sessions |-> <<>>]
    /\ handled = NotHandled
    /\ enq = [s \in Sessions |-> <<>>]
    /\ wire = [s \in Sessions |-> <<>>]
    /\ relays = <<>>
    /\ created_log = {}
    /\ nread = [s \in Sessions |-> 0]
    /\ rlog = [s \in Sessions |-> <<>>]
    /\ reads = 0
    /\ faults = 0
    /\ stop_flag_ = FALSE
    /\ acceptor_open = TRUE
    /\ accepting = FALSE
    /\ stop_pc = "idle"
    /\ participants = {}
    /\ posted = {}
    /\ stopped = {}
    /\ at_stop = {}

(***************************************************************************)
(* Initial state of the client: ChatClient constructed and started, no     *)
(* request made yet.                                                       *)
(***************************************************************************)
InitClient ==
    /\ socket_ = "none"
    /\ connecting = FALSE
    /\ closed_ = FALSE
    /\ logged_in_ = FALSE
    /\ account_created_ = FALSE
    /\ client_write_msgs_ = <<>>
    /\ client_next_packet_size_ = 0
    /\ client_rd = "none"
    /\ client_wr = 0
    /\ client_writing = <<>>
    /\ client_done = {}
    /\ client_stop_pc = "idle"
    /\ close_posted = FALSE
    /\ io_stopped = FALSE
    /\ client_session = 0
    /\ backlog = FALSE
    /\ c2s = <<>>
    /\ s2c = <<>>
    /\ client_enq = <<>>
    /\ client_wire = <<>>
    /\ emitted = <<>>
    /\ calls = 0
    /\ client_rlog = <<>>

\* two connections whose peers send every payload; the client makes no
\* request
Init ==
    /\ InitServer
    /\ InitClient
    /\ CodecOff
    /\ recording = FALSE
    /\ menu = Payloads
    /\ session_limit = WideSessions
    /\ read_limit = MaxReads
    /\ fault_limit = MaxFaults
    /\ plan = <<>>
    /\ raw_server = FALSE

\* the payloads of the broadcast scenario: create an account, log in with
\* the right and the wrong password, chat, and a status packet
CastMenu ==
    {Payload(CreateUserPacket(<<97>>, <<120>>)),
     Payload(LoginPacket(<<97>>, <<120>>)),
     Payload(LoginPacket(<<97>>, <<121>>)),
     Payload(ChatMessagePacket(<<122>>, <<104>>)),
     <<LoginSuccess>>}

\* every connection, with peers that keep to the broadcast scenario
InitCast ==
    /\ InitServer
    /\ InitClient
    /\ CodecOff
    /\ recording = FALSE
    /\ menu = CastMenu
    /\ session_limit = MaxSessions
    /\ read_limit = MaxReads
    /\ fault_limit = MaxFaults
    /\ plan = <<>>
    /\ raw_server = FALSE

\* what the raw peer sends next to a ChatClient at work: it creates the
\* account or logs in
LinkMenu ==
    {Payload(CreateUserPacket(<<97>>, <<120>>)),
     Payload(LoginPacket(<<97>>, <<120>>))}

\* the requests of an application that connects, creates its account, logs
\* in, chats and closes; of one that logs in before it connects; and of one
\* that logs in with the wrong password and goes on after it closed
Plans ==
    {<<[req |-> "Connect"],
       [req |-> "CreateUser", username |-> <<97>>, password |-> <<120>>],
       [req |-> "Login", username |-> <<97>>, password |-> <<120>>],
       [req |-> "SendMessage", message |-> <<104>>],
       [req |-> "SendMessage", message |-> <<105>>],
       [req |-> "Close"]>>,
     <<[req |-> "Login", username |-> <<97>>, password |-> <<120>>],
       [req |-> "Connect"],
       [req |-> "SendMessage", message |-> <<104>>]>>,
     <<[req |-> "Connect"],
       [req |-> "Login", username |-> <<97>>, password |-> <<121>>],
       [req |-> "Close"],
       [req |-> "Login", username |-> <<97>>, password |-> <<120>>]>>}

\* a ChatClient and a raw peer, with the histories recorded
InitLink ==
    /\ InitServer
    /\ InitClient
    /\ CodecOff
    /\ recording = TRUE
    /\ menu = LinkMenu
    /\ session_limit = WideSessions
    /\ read_limit = LinkReads
    /\ fault_limit = LinkFaults
    /\ plan \in Plans
    /\ raw_server = FALSE

\* the payloads of peers that register, log in and then fail
HistMenu ==
    {Payload(CreateUserPacket(<<97>>, <<120>>)),
     Payload(LoginPacket(<<97>>, <<120>>))}

\* the server and raw peers, with the histories recorded
InitHist ==
    /\ InitServer
    /\ InitClient
    /\ CodecOff
    /\ recording = TRUE
    /\ menu = HistMenu
    /\ session_limit = WideSessions
    /\ read_limit = MaxReads
    /\ fault_limit = MaxFaults
    /\ plan = <<>>
    /\ raw_server = FALSE

\* what a raw peer sends to the server in the runs with a raw server: an
\* empty payload and a chat message
PeerMenu == {<<>>, Payload(ChatMessagePacket(<<122>>, <<104>>))}

\* what the raw server writes to the client: a header that announces more
\* than MAX_FRAME_BYTES, a header that announces nothing, and frames
PeerFrames ==
    {LE32(MAX_FRAME_BYTES + 1), LE32(0),
     preparePacketForSending(LoginSuccessPacket),
     preparePacketForSending(LoginFailedPacket),
     preparePacketForSending(ChatMessagePacket(<<97>>, <<104>>))}

\* the requests of an application that chats before and after it logged in
\* and closed, and of one that creates its account before it connects
PeerPlans ==
    {<<[req |-> "Connect"],
       [req |-> "SendMessage", message |-> <<104>>],
       [req |-> "Login", username |-> <<97>>, password |-> <<120>>],
       [req |-> "Close"],
       [req |-> "SendMessage", message |-> <<105>>],
       [req |-> "Close"]>>,
     <<[req |-> "CreateUser", username |-> <<97>>, password |-> <<120>>],
       [req |-> "Connect"],
       [req |-> "Close"]>>}

\* the server with one raw peer, and a ChatClient connected to a raw server
InitPeer ==
    /\ InitServer
    /\ InitClient
    /\ CodecOff
    /\ recording = TRUE
    /\ menu = PeerMenu
    /\ session_limit = PeerSessions
    /\ read_limit = PeerReads
    /\ fault_limit = MaxFaults
    /\ plan \in PeerPlans
    /\ raw_server = TRUE

\* what a raw peer sends while a guest listens: an account, a login, a chat
\* message
GuestMenu ==
    {Payload(CreateUserPacket(<<97>>, <<120>>)),
     Payload(LoginPacket(<<97>>, <<120>>)),
     Payload(ChatMessagePacket(<<122>>, <<104>>))}

\* the requests of an application that connects and only listens, of one
\* that logs in to the account the peer has made and chats, and of one that
\* creates its account before it connects
GuestPlans ==
    {<<[req |-> "Connect"], [req |-> "Close"]>>,
     <<[req |-> "Connect"],
       [req |-> "Login", username |-> <<97>>, password |-> <<120>>],
       [req |-> "SendMessage", message |-> <<104>>]>>,
     <<[req |-> "CreateUser", username |-> <<97>>, password |-> <<120>>],
       [req |-> "Connect"]>>}

\* a ChatClient and a raw peer on the same server
InitGuest ==
    /\ InitServer
    /\ InitClient
    /\ CodecOff
    /\ recording = TRUE
    /\ menu = GuestMenu
    /\ session_limit = WideSessions
    /\ read_limit = GuestReads
    /\ fault_limit = LinkFaults
    /\ plan \in GuestPlans
    /\ raw_server = FALSE

\* the requests of an application that logs in, closes and connects again,
\* and of one that logs in before it is connected
RelinkPlans ==
    {<<[req |-> "Connect"],
       [req |-> "CreateUser", username |-> <<97>>, password |-> <<120>>],
       [req |-> "Login", username |-> <<97>>, password |-> <<120>>],
       [req |-> "Close"],
       [req |-> "Connect"],
       [req |-> "SendMessage", message |-> <<104>>]>>,
     <<[req |-> "Login", username |-> <<97>>, password |-> <<120>>],
       [req |-> "Connect"]>>}

\* a ChatClient that connects to the server a second time
InitRelink ==
    /\ InitServer
    /\ InitClient
    /\ CodecOff
    /\ recording = TRUE
    /\ menu = LinkMenu
    /\ session_limit = WideSessions
    /\ read_limit = LinkReads
    /\ fault_limit = LinkFaults
    /\ plan \in RelinkPlans
    /\ raw_server = FALSE

\* the requests of an application that connects again after a failure,
\* besides those made of a client at work
ConnectPlans ==
    PeerPlans \cup
    {<<[req |-> "Connect"], [req |-> "Connect"]>>}

\* a ChatClient and the raw server it connects to
InitConnect ==
    /\ InitServer
    /\ InitClient
    /\ CodecOff
    /\ recording = TRUE
    /\ menu = PeerMenu
    /\ session_limit = PeerSessions
    /\ read_limit = PeerReads
    /\ fault_limit = MaxFaults
    /\ plan \in ConnectPlans
    /\ raw_server = TRUE

\* the requests of an application that connects before it asks for anything
\* else, and closes at the end
LatePlans ==
    {<<[req |-> "Connect"],
       [req |-> "Login", username |-> <<97>>, password |-> <<120>>],
       [req |-> "SendMessage", message |-> <<104>>],
       [req |-> "Close"]>>,
     <<[req |-> "Connect"],
       [req |-> "CreateUser", username |-> <<97>>, password |-> <<120>>],
       [req |-> "Close"],
       [req |-> "Connect"]>>}

\* a ChatClient and the raw server it connects to, the requests made after
\* Connect
InitLate ==
    /\ InitServer
    /\ InitClient
    /\ CodecOff
    /\ recording = TRUE
    /\ menu = PeerMenu
    /\ session_limit = PeerSessions
    /\ read_limit = PeerReads
    /\ fault_limit = MaxFaults
    /\ plan \in LatePlans
    /\ raw_server = TRUE

\* what the peers send in the runs that follow a reply to the socket: an
\* account, a login, and a ChatMessage cut off after its tag
ReplyMenu == HistMenu \cup {<<ChatMessage>>}

\* the server and its raw peers, histories recorded
InitReply ==
    /\ InitServer
    /\ InitClient
    /\ CodecOff
    /\ recording = TRUE
    /\ menu = ReplyMenu
    /\ session_limit = WideSessions
    /\ read_limit = ReplyReads
    /\ fault_limit = LinkFaults
    /\ plan = <<>>
    /\ raw_server = FALSE

(***************************************************************************)
(* The codec on its own, as the packet tests use it: a packet is framed,   *)
(* the four bytes of the size are taken off, and createPacketFromData is   *)
(* given the payload; or it is given bytes that are no payload.            *)
(***************************************************************************)
CodecBytes == {0, 97, 255}

CodecStrings == UNION {[1..n -> CodecBytes] : n \in 0..MaxStrLen}

TwoStringPackets ==
    {LoginPacket(u, p) : u \in CodecStrings, p \in CodecStrings}
    \cup {CreateUserPacket(u, p) : u \in CodecStrings, p \in CodecStrings}
    \cup {ChatMessagePacket(u, m) : u \in CodecStrings, m \in CodecStrings}

CodecPackets ==
    TwoStringPackets
    \cup {LoginSuccessPacket, LoginFailedPacket, AccountCreatedPacket,
          AccountExistsPacket}

\* payloads whose first byte is no packet type, and the empty one
Untyped ==
    {<<>>}
    \cup {<<t>> \o rest : t \in {7, 9, 255},
                          rest \in {<<>>, <<1, 0, 0, 0, 97, 0, 0, 0, 0>>}}

\* the payloads of the two-string packets, cut short, and a string whose
\* length field is the largest there is
Truncated ==
    UNION {{SubSeq(Payload(p), 1, n) : n \in 1..(Len(Payload(p)) - 1)} :
           p \in TwoStringPackets}
    \cup {<<Login, 255, 255, 255, 255>>}

InitCodec ==
    /\ InitServer
    /\ InitClient
    /\ recording = FALSE
    /\ menu = {}
    /\ session_limit = 0
    /\ read_limit = 0
    /\ fault_limit = 0
    /\ plan = <<>>
    /\ raw_server = FALSE
    /\ created = NoResult
    /\ \/ /\ original \in CodecPackets
          /\ bytes = <<>>
          /\ codec_pc = "packet"
       \/ /\ original = NoOriginal
          /\ bytes \in Untyped \cup Truncated
          /\ codec_pc = "payload"

\* a call of the codec touches neither the server nor the client
CodecStep ==
    UNCHANGED <<ioVars, srvVars, sessVars, handled, histVars, stopVars, budgetVars,
                clientVars, linkVars, clientHist>>

\* Packet::preparePacketForSending(original), of either header
Prepare ==
    /\ CodecStep
    /\ codec_pc = "packet"
    /\ \E frame \in {preparePacketForSending(original),
                      preparePacketForSendingCopy(original)} : bytes' = frame
    /\ codec_pc' = "frame"
    /\ UNCHANGED <<original, created>>

\* the receiver takes the size, then as many bytes as it says
TakeBody ==
    /\ CodecStep
    /\ codec_pc = "frame"
    /\ bytes' = SubSeq(bytes, 5, 4 + readFromBuffer32(bytes, 0))
    /\ codec_pc' = "payload"
    /\ UNCHANGED <<original, created>>

\* createPacketFromData(bytes)
Create ==
    /\ CodecStep
    /\ codec_pc = "payload"
    /\ created' \in createPacketFromData(bytes)
    /\ codec_pc' = "done"
    /\ UNCHANGED <<original, bytes>>

\* what the peers of a server about to stop send: an account, a login
StopMenu ==
    {Payload(CreateUserPacket(<<97>>, <<120>>)),
     Payload(LoginPacket(<<97>>, <<120>>))}

\* the server of run_server with its peers
InitStop ==
    /\ InitServer
    /\ InitClient
    /\ CodecOff
    /\ recording = FALSE
    /\ menu = StopMenu
    /\ session_limit = StopSessions
    /\ read_limit = StopReads
    /\ fault_limit = StopFaults
    /\ plan = <<>>
    /\ raw_server = FALSE

(***************************************************************************)
(* ChatServer::do_accept, the completion handler.  The connection accepted *)
(* is the ChatClient's when that one waits, or a raw peer's.               *)
(***************************************************************************)
Accept ==
    /\ ~crashed
    /\ IoFree
    /\ accept_pending
    /\ acceptor_open
    /\ Cardinality(alive) < session_limit
    /\ IF stop_flag_
       THEN /\ accept_pending' = FALSE
            /\ UNCHANGED <<alive, participants_, rd, rlog, backlog,
                           client_session>>
       ELSE LET session == Cardinality(alive) + 1
            IN  /\ alive' = alive \cup {session}
                /\ participants_' = participants_ \cup {session}
                /\ rd' = [rd EXCEPT ![session] = "header"]
                /\ rlog' = [rlog EXCEPT
                               ![session] = note(@, <<"read_header">>)]
                /\ \E from_client \in {FALSE} \cup {backlog} :
                      /\ backlog' = (backlog /\ ~from_client)
                      /\ client_session' = IF from_client THEN session
                                           ELSE client_session
                /\ UNCHANGED accept_pending
    /\ handled' = NotHandled
    /\ UNCHANGED <<stopVars, codecVars, ioVars, user_credentials_, crashed, username_,
                   next_packet_size_, write_msgs_, wr, writing, envVars, enq, wire, relays, created_log, nread,
                   budgetVars, clientVars, c2s, s2c, clientHist>>

AcceptError ==
    /\ ~crashed
    /\ IoFree
    /\ accept_pending
    /\ MayFail
    /\ accept_pending' = FALSE
    /\ faults' = faults + 1
    /\ handled' = NotHandled
    /\ UNCHANGED <<stopVars, codecVars, ioVars, participants_, user_credentials_, crashed, sessVars, histVars,
                   reads, clientVars, linkVars, clientHist>>

\* the effect of server_.leave(self) from a handler of session s
DoLeave(s) ==
    LET l == leave(s)
    IN  /\ participants_' = l.registry
        /\ write_msgs_' = l.io.q
        /\ wr' = l.io.w
        /\ writing' = l.io.b
        /\ enq' = l.io.e

\* session s reads what the ChatClient wrote
Linked(s) == client_session # 0 /\ s = client_session

\* the values the four bytes of a header can have when session s reads them
HeaderInputs(s) ==
    IF Linked(s)
    THEN IF Len(c2s) >= 4 THEN {readFromBuffer32(c2s, 0)} ELSE {}
    ELSE {Len(d) : d \in menu} \cup {MAX_FRAME_BYTES + 1}

\* the payloads session s can read after a header that announced n bytes
BodyInputs(s, n) ==
    IF Linked(s)
    THEN IF Len(c2s) >= n THEN {SubSeq(c2s, 1, n)} ELSE {}
    ELSE {d \in menu : Len(d) = n}

\* the stream from the client after session s consumed n bytes
Consumed(s, n) ==
    IF Linked(s) THEN SubSeq(c2s, n + 1, Len(c2s)) ELSE c2s

(***************************************************************************)
(* ChatSession::do_read_header, the completion handler.                    *)
(***************************************************************************)
ReadHeaderDone(s) ==
    /\ ~crashed
    /\ IoFree
    /\ rd[s] = "header"
    /\ s \notin stopped
    /\ \E n \in HeaderInputs(s) :
          /\ next_packet_size_' = [next_packet_size_ EXCEPT ![s] = n]
          /\ IF n > MAX_FRAME_BYTES
             THEN /\ MayFail
                  /\ DoLeave(s)
                  /\ rd' = [rd EXCEPT ![s] = "none"]
                  /\ rlog' = [rlog EXCEPT ![s] = note(@, <<"oversize">>)]
                  /\ faults' = faults + 1
                  /\ UNCHANGED <<nread, reads>>
             ELSE /\ Linked(s) \/ MayRead
                  /\ rd' = [rd EXCEPT ![s] = "body"]
                  /\ rlog' = [rlog EXCEPT
                                 ![s] = note(@, <<"header", "read_body">>)]
                  /\ nread' = [nread EXCEPT ![s] = IF recording THEN @ + 1 ELSE @]
                  /\ reads' = IF Linked(s) THEN reads ELSE reads + 1
                  /\ UNCHANGED <<participants_, write_msgs_, wr, writing, enq, faults>>
    /\ c2s' = Consumed(s, 4)
    /\ handled' = NotHandled
    /\ UNCHANGED <<stopVars, codecVars, ioVars, user_credentials_, accept_pending, crashed, alive, username_,
                   envVars, wire, relays, created_log, clientVars,
                   client_session, backlog, s2c, clientHist>>

\* a read handler that issues the next header read after an error code
ReadError_reading_on(s) ==
    /\ ~crashed
    /\ IoFree
    /\ rd[s] \in {"header", "body"}
    /\ MayFail
    /\ DoLeave(s)
    /\ rd' = [rd EXCEPT ![s] = "header"]
    /\ rlog' = [rlog EXCEPT ![s] = note(@, <<"error", "read_header">>)]
    /\ faults' = faults + 1
    /\ handled' = NotHandled
    /\ UNCHANGED <<stopVars, codecVars, ioVars, user_credentials_, accept_pending,
                   crashed, alive, username_, next_packet_size_, envVars,
                   wire, relays, created_log, nread, reads, clientVars,
                   linkVars, clientHist>>

\* a read completes with an error code
ReadError(s) ==
    /\ ~crashed
    /\ IoFree
    /\ rd[s] \in {"header", "body"}
    /\ MayFail
    /\ DoLeave(s)
    /\ rd' = [rd EXCEPT ![s] = "none"]
    /\ rlog' = [rlog EXCEPT ![s] = note(@, <<"error">>)]
    /\ faults' = faults + 1
    /\ handled' = NotHandled
    /\ UNCHANGED <<stopVars, codecVars, ioVars, user_credentials_, accept_pending, crashed, alive, username_,
                   next_packet_size_, envVars, wire, relays, created_log, nread,
                   reads, clientVars, linkVars, clientHist>>

(***************************************************************************)
(* ChatSession::do_read_body, the completion handler.                      *)
(***************************************************************************)
ReadBodyDone(s) ==
    /\ ~crashed
    /\ IoFree
    /\ rd[s] = "body"
    /\ s \notin stopped
    /\ \E data \in BodyInputs(s, next_packet_size_[s]) :
          \E res \in createPacketFromData(data) :
                /\ handled' = [s |-> s, data |-> data, res |-> res,
                               before |-> Before]
                /\ IF res.res = "crash"
                   THEN /\ crashed' = TRUE
                        /\ UNCHANGED <<participants_, user_credentials_,
                                       accept_pending, sessVars, histVars,
                                       budgetVars>>
                   ELSE IF res.res = "null"
                   THEN /\ rd' = [rd EXCEPT ![s] = "header"]
                        /\ rlog' = [rlog EXCEPT
                                       ![s] = note(@, <<"body", "dispatch",
                                                        "read_header">>)]
                        /\ UNCHANGED <<srvVars, alive, username_,
                                       next_packet_size_, write_msgs_, wr,
                                       writing, envVars, enq, wire, relays,
                                       created_log, nread, budgetVars>>
                   ELSE LET h == handle_packet(s, res.pkt,
                                               <<s, nread[s], res.pkt.type>>)
                        IN  /\ username_' = h.username
                            /\ user_credentials_' = h.credentials
                            /\ write_msgs_' = h.io.q
                            /\ wr' = h.io.w
                            /\ writing' = h.io.b
                            /\ enq' = h.io.e
                            /\ relays' = relays \o h.relay
                            /\ created_log' =
                                   IF /\ res.pkt.type = CreateUser
                                      /\ h.io.q[s] # write_msgs_[s]
                                      /\ h.io.q[s][Len(h.io.q[s])] =
                                             preparePacketForSending(AccountCreatedPacket)
                                   THEN created_log \cup
                                        {<<res.pkt.username, res.pkt.password>>}
                                   ELSE created_log
                            /\ rd' = [rd EXCEPT ![s] = "header"]
                            /\ rlog' = [rlog EXCEPT
                                           ![s] = note(@, <<"body", "dispatch",
                                                            "read_header">>)]
                            /\ UNCHANGED <<participants_, accept_pending,
                                           crashed, alive, next_packet_size_,
                                           envVars, wire, nread,
                                           budgetVars>>
    /\ c2s' = Consumed(s, next_packet_size_[s])
    /\ UNCHANGED <<stopVars, codecVars, ioVars, clientVars, client_session, backlog, s2c, clientHist>>

(***************************************************************************)
(* ChatSession::do_write, the completion handler.  The bytes of the front  *)
(* frame have gone to the peer.                                            *)
(***************************************************************************)
WriteDone(s) ==
    /\ ~crashed
    /\ IoFree
    /\ wr[s] > 0
    /\ s \notin stopped
    /\ wire' = [wire EXCEPT ![s] = IF recording
                                   THEN Append(@, writing[s]) ELSE @]
    /\ s2c' = IF Linked(s) /\ socket_ # "closed"
              THEN s2c \o writing[s] ELSE s2c
    /\ LET popped == [IoNow EXCEPT !.q[s] = pop_front(@),
                                   !.w[s] = @ - 1, !.b[s] = <<>>]
           io == IF popped.q[s] # <<>> THEN do_write(popped, s) ELSE popped
       IN  /\ write_msgs_' = io.q
           /\ wr' = io.w
           /\ writing' = io.b
    /\ handled' = NotHandled
    /\ UNCHANGED <<stopVars, codecVars, ioVars, srvVars, alive, username_, next_packet_size_, rd,
                   envVars, enq, relays, created_log, nread, rlog, budgetVars,
                   clientVars, client_session, backlog, c2s, clientHist>>

WriteError(s) ==
    /\ ~crashed
    /\ IoFree
    /\ wr[s] > 0
    /\ MayFail
    /\ faults' = faults + 1
    /\ LET l == leave(s)
       IN  /\ participants_' = l.registry
           /\ write_msgs_' = l.io.q
           /\ wr' = [l.io.w EXCEPT ![s] = @ - 1]
           /\ writing' = [l.io.b EXCEPT ![s] = <<>>]
           /\ enq' = l.io.e
    /\ handled' = NotHandled
    /\ UNCHANGED <<stopVars, codecVars, ioVars, user_credentials_, accept_pending, crashed, alive, username_,
                   next_packet_size_, rd, envVars, wire, relays, created_log, nread, rlog,
                   reads, clientVars, linkVars, clientHist>>

(***************************************************************************)
(* ChatServer::stop, called by the thread of run_server while the io       *)
(* thread runs the io_context.  Nothing orders the statements of stop()    *)
(* and those of a handler on the io thread, so the accept handler is given *)
(* here in two steps: its test of the error code and of stop_flag_, and    *)
(* the insertion that follows it.                                          *)
(***************************************************************************)
AcceptTest ==
    /\ ~crashed
    /\ IoFree
    /\ accept_pending
    /\ acceptor_open
    /\ Cardinality(alive) < session_limit
    /\ accept_pending' = FALSE
    /\ accepting' = ~stop_flag_
    /\ handled' = NotHandled
    /\ UNCHANGED <<codecVars, ioVars, participants_, user_credentials_, crashed, sessVars,
                   histVars, budgetVars, clientVars, linkVars, clientHist,
                   stop_flag_, acceptor_open, stop_pc, participants, posted,
                   stopped, at_stop>>

\* participants_.insert(session); session->start(); do_accept()
AcceptInsert ==
    /\ ~crashed
    /\ accepting
    /\ LET session == Cardinality(alive) + 1
       IN  /\ alive' = alive \cup {session}
           /\ participants_' = participants_ \cup {session}
           /\ rd' = [rd EXCEPT ![session] = "header"]
           /\ rlog' = [rlog EXCEPT ![session] = note(@, <<"read_header">>)]
    /\ accept_pending' = TRUE
    /\ accepting' = FALSE
    /\ handled' = NotHandled
    /\ UNCHANGED <<codecVars, ioVars, user_credentials_, crashed, username_, next_packet_size_,
                   write_msgs_, wr, writing, envVars, enq, wire, relays, created_log, nread,
                   budgetVars, clientVars, linkVars,
                   clientHist, stop_flag_, acceptor_open, stop_pc,
                   participants, posted, stopped, at_stop>>

\* the accept handler with the error of a closed acceptor
AcceptAborted ==
    /\ ~crashed
    /\ IoFree
    /\ accept_pending
    /\ ~acceptor_open
    /\ accept_pending' = FALSE
    /\ handled' = NotHandled
    /\ UNCHANGED <<participants_, user_credentials_, crashed, sessVars,
                   histVars, budgetVars, clientVars, linkVars, clientHist,
                   stopVars, codecVars, ioVars>>

\* what a step of the thread in stop() leaves alone
StopStep ==
    /\ ~crashed
    /\ handled' = NotHandled
    /\ UNCHANGED <<codecVars, ioVars, user_credentials_, accept_pending, sessVars, histVars,
                   budgetVars, clientVars, linkVars, clientHist, accepting,
                   stopped>>

\* stop_flag_ = true
StopFlag ==
    /\ StopStep
    /\ stop_pc = "idle"
    /\ stop_pc' = "flag"
    /\ stop_flag_' = TRUE
    /\ at_stop' = participants_
    /\ UNCHANGED <<participants_, crashed, acceptor_open, participants, posted>>

\* acceptor_.close()
StopClose ==
    /\ StopStep
    /\ stop_pc = "flag"
    /\ stop_pc' = "close"
    /\ acceptor_open' = FALSE
    /\ UNCHANGED <<participants_, crashed, stop_flag_, participants, posted,
                   at_stop>>

\* participants = std::move(participants_); participants_.clear().  The
\* set is not made for two threads: moved while the accept handler is about
\* to insert into it, the process may end here.
StopMove ==
    /\ StopStep
    /\ stop_pc = "close"
    /\ stop_pc' = "move"
    /\ participants' = participants_
    /\ participants_' = {}
    /\ crashed' \in {FALSE} \cup {accepting}
    /\ UNCHANGED <<stop_flag_, acceptor_open, posted, at_stop>>

\* the loop that posts participant->stop() for every element
StopPost ==
    /\ StopStep
    /\ stop_pc = "move"
    /\ stop_pc' = "post"
    /\ posted' = participants
    /\ UNCHANGED <<participants_, crashed, stop_flag_, acceptor_open,
                   participants, at_stop>>

\* io_context_.run() is entered
StopRun ==
    /\ StopStep
    /\ stop_pc = "post"
    /\ stop_pc' = "run"
    /\ UNCHANGED <<participants_, crashed, stop_flag_, acceptor_open,
                   participants, posted, at_stop>>

\* the io_context has no handler left
OutOfWork ==
    /\ ~accept_pending
    /\ ~accepting
    /\ posted = {}
    /\ \A s \in Sessions : rd[s] = "none" /\ wr[s] = 0

\* io_context_.run() returns; participants.clear(); stop() returns
StopReturn ==
    /\ StopStep
    /\ stop_pc = "run"
    /\ OutOfWork
    /\ stop_pc' = "done"
    /\ participants' = {}
    /\ UNCHANGED <<participants_, crashed, stop_flag_, acceptor_open, posted,
                   at_stop>>

\* the posted request runs ChatSession::stop: shutdown and close
SessionStop(s) ==
    /\ ~crashed
    /\ IoFree
    /\ s \in posted
    /\ posted' = posted \ {s}
    /\ stopped' = stopped \cup {s}
    /\ handled' = NotHandled
    /\ UNCHANGED <<codecVars, ioVars, srvVars, sessVars, histVars, budgetVars, clientVars,
                   linkVars, clientHist, stop_flag_, acceptor_open, accepting,
                   stop_pc, participants, at_stop>>

\* socket_.shutdown fails (the peer has reset the connection) and throws
\* out of the handler
SessionStopThrows(s) ==
    /\ ~crashed
    /\ IoFree
    /\ s \in posted
    /\ MayFail
    /\ faults' = faults + 1
    /\ crashed' = TRUE
    /\ handled' = NotHandled
    /\ UNCHANGED <<participants_, user_credentials_, accept_pending, sessVars,
                   histVars, reads, clientVars, linkVars, clientHist, stopVars, codecVars, ioVars>>

\* the read of a stopped session completes with operation_aborted
ReadAborted(s) ==
    /\ ~crashed
    /\ IoFree
    /\ rd[s] \in {"header", "body"}
    /\ s \in stopped
    /\ DoLeave(s)
    /\ rd' = [rd EXCEPT ![s] = "none"]
    /\ rlog' = [rlog EXCEPT ![s] = note(@, <<"error">>)]
    /\ handled' = NotHandled
    /\ UNCHANGED <<user_credentials_, accept_pending, crashed, alive, username_,
                   next_packet_size_, envVars, wire, relays, created_log, nread,
                   budgetVars, clientVars, linkVars, clientHist, stopVars, codecVars, ioVars>>

\* the write of a stopped session completes with operation_aborted
WriteAborted(s) ==
    /\ ~crashed
    /\ IoFree
    /\ wr[s] > 0
    /\ s \in stopped
    /\ LET l == leave(s)
       IN  /\ participants_' = l.registry
           /\ write_msgs_' = l.io.q
           /\ wr' = [l.io.w EXCEPT ![s] = @ - 1]
           /\ writing' = [l.io.b EXCEPT ![s] = <<>>]
           /\ enq' = l.io.e
    /\ handled' = NotHandled
    /\ UNCHANGED <<user_credentials_, accept_pending, crashed, alive, username_,
                   next_packet_size_, rd, envVars, wire, relays, created_log,
                   nread, rlog, budgetVars, clientVars, linkVars, clientHist,
                   stopVars, codecVars, ioVars>>

(***************************************************************************)
(* ChatClient.  A request (Connect, Login, CreateUser, SendMessage, Close) *)
(* is a signal whose slot is posted to the client's io_context; the action *)
(* is the slot running there.                                              *)
(***************************************************************************)
\* Signal::emit of one of the client's notifications
emit(log, signal) == IF recording THEN Append(log, signal) ELSE log

\* socket_.close() cancels the read that is outstanding; a read that has
\* completed already is not outstanding any more
Cancels == client_rd \in {"header", "body"} /\ "read" \notin client_done

\* the outstanding operations of a kind that have completed with success
Done(op) == IF op \in client_done THEN 1 ELSE 0

\* a close() that does not look at closed_
close_again(log) ==
    [closed |-> TRUE, socket |-> "closed",
     log |-> emit(log, [sig |-> "on_disconnected", by |-> "close"]),
     rd |-> IF Cancels THEN "aborted" ELSE client_rd,
     rlog |-> IF Cancels
              THEN note(client_rlog, <<"cancelled">>) ELSE client_rlog]

\* ChatClient::close: the flag, the socket, the notifications and whether
\* the outstanding operations were cancelled
close(log) ==
    IF ~closed_
    THEN [closed |-> TRUE, socket |-> "closed",
          log |-> emit(log, [sig |-> "on_disconnected", by |-> "close"]),
          rd |-> IF Cancels THEN "aborted" ELSE client_rd,
          rlog |-> IF Cancels
                   THEN note(client_rlog, <<"cancelled">>) ELSE client_rlog]
    ELSE [closed |-> closed_, socket |-> socket_, log |-> log,
          rd |-> client_rd, rlog |-> client_rlog]

\* an operation of the client completes with success while the socket is
\* open; its handler waits in the io_context behind the handlers and the
\* slots that are there already.  A read completes when the bytes it waits
\* for have arrived, a write gives its buffer to the connection.
ClientCompletes(op) ==
    /\ ~io_stopped
    /\ socket_ = "open"
    /\ op \notin client_done
    /\ client_done' = client_done \cup {op}
    /\ IF op = "read"
       THEN /\ \/ client_rd = "header" /\ Len(s2c) >= 4
               \/ client_rd = "body" /\ Len(s2c) >= client_next_packet_size_
            /\ c2s' = c2s
       ELSE /\ client_wr > 0
            /\ c2s' = c2s \o client_writing
    /\ UNCHANGED <<serverSide, budgetVars, socket_, connecting, closed_,
                   logged_in_, account_created_, client_write_msgs_,
                   client_next_packet_size_, client_rd, client_wr,
                   client_writing, client_session, backlog, s2c, clientHist>>

\* ChatClient::write: the queue, the outstanding write and its buffer, the
\* history
write(packet) ==
    LET prepared_packet == preparePacketForSending(packet)
        write_in_progress == client_write_msgs_ # <<>>
        q == push_back(client_write_msgs_, prepared_packet)
    IN  [q |-> q,
         w |-> IF write_in_progress THEN client_wr ELSE client_wr + 1,
         b |-> IF write_in_progress THEN client_writing ELSE Head(q),
         e |-> IF recording THEN Append(client_enq, prepared_packet)
               ELSE client_enq]

\* a request leaves the server side alone and counts against the bound
Requested ==
    /\ MayCall
    /\ calls' = calls + 1
    /\ UNCHANGED <<serverSide, budgetVars, linkVars, client_wire>>

\* write(packet) as the whole effect of a request
Writes(packet) ==
    LET w == write(packet)
    IN  /\ client_write_msgs_' = w.q
        /\ client_wr' = w.w
        /\ client_writing' = w.b
        /\ client_enq' = w.e
        /\ UNCHANGED <<socket_, connecting, closed_, logged_in_,
                       account_created_, client_next_packet_size_, client_rd,
                       client_done, emitted, client_rlog>>

\* the server has no operation left on the connection the client had: it
\* has seen the end of the stream and its writes have ended
OldLinkDone ==
    client_session # 0 => rd[client_session] = "none" /\ wr[client_session] = 0

\* ChatClient::connect, the resolver succeeded and async_connect is issued.
\* The streams of an earlier connection are gone with its socket.
ClientConnect ==
    /\ MayCall
    /\ calls' = calls + 1
    /\ NextCall.req = "Connect"
    /\ socket_ \in {"none", "closed"}
    /\ ~connecting
    /\ ~backlog
    /\ OldLinkDone
    /\ client_done = {}
    /\ client_session' = 0
    /\ c2s' = IF client_session # 0 THEN <<>> ELSE c2s
    /\ s2c' = IF client_session # 0 THEN <<>> ELSE s2c
    /\ UNCHANGED <<serverSide, budgetVars, backlog, client_wire>>
    /\ socket_' = "opening"
    /\ connecting' = TRUE
    /\ emitted' = emit(emitted, [sig |-> "Connect"])
    /\ UNCHANGED <<closed_, logged_in_, account_created_, client_write_msgs_,
                   client_next_packet_size_, client_rd, client_wr,
                   client_writing, client_done, client_enq, client_rlog>>

\* ChatClient::connect, the resolver threw
ClientResolveError ==
    /\ MayCall
    /\ NextCall.req = "Connect"
    /\ MayFail
    /\ ~connecting
    /\ client_session = 0 /\ ~backlog
    /\ calls' = calls + 1
    /\ faults' = faults + 1
    /\ emitted' = emit(emit(emitted, [sig |-> "Connect"]),
                       [sig |-> "on_disconnected", by |-> "connect"])
    /\ UNCHANGED <<serverSide, reads, clientVars, linkVars, client_enq,
                   client_wire, client_rlog>>

\* a connect handler that reports the connection and starts no read
ClientConnectDone_not_reading ==
    /\ connecting
    /\ ~io_stopped
    /\ socket_ = "opening"
    /\ connecting' = FALSE
    /\ socket_' = "open"
    /\ backlog' = ~raw_server
    /\ emitted' = emit(emitted, [sig |-> "on_connected"])
    /\ UNCHANGED <<serverSide, budgetVars, closed_, logged_in_,
                   account_created_, client_write_msgs_,
                   client_next_packet_size_, client_rd, client_wr,
                   client_writing, client_done, client_session, c2s, s2c, client_enq,
                   client_wire, calls, client_rlog>>

\* a connect handler that makes a closed client open again
ClientConnectDone_reopening ==
    /\ connecting
    /\ ~io_stopped
    /\ socket_ = "opening"
    /\ connecting' = FALSE
    /\ socket_' = "open"
    /\ closed_' = FALSE
    /\ backlog' = ~raw_server
    /\ emitted' = emit(emitted, [sig |-> "on_connected"])
    /\ client_rd' = "header"
    /\ client_rlog' = note(client_rlog, <<"connected", "read_header">>)
    /\ UNCHANGED <<serverSide, budgetVars, logged_in_, account_created_,
                   client_write_msgs_, client_next_packet_size_, client_wr,
                   client_writing, client_done, client_session, c2s, s2c, client_enq,
                   client_wire, calls>>

\* the completion handler of async_connect, no error
ClientConnectDone ==
    /\ connecting
    /\ ~io_stopped
    /\ socket_ = "opening"
    /\ connecting' = FALSE
    /\ socket_' = "open"
    /\ backlog' = ~raw_server
    /\ emitted' = emit(emitted, [sig |-> "on_connected"])
    /\ client_rd' = "header"
    /\ client_rlog' = note(client_rlog, <<"connected", "read_header">>)
    /\ UNCHANGED <<serverSide, budgetVars, closed_, logged_in_,
                   account_created_, client_write_msgs_,
                   client_next_packet_size_, client_wr, client_writing, client_done,
                   client_session, c2s, s2c, client_enq, client_wire, calls>>

\* the completion handler of async_connect, with an error code: the
\* connection failed, or close() cancelled it
ClientConnectError ==
    /\ connecting
    /\ ~io_stopped
    /\ socket_ = "closed" \/ MayFail
    /\ connecting' = FALSE
    /\ socket_' = IF socket_ = "opening" THEN "none" ELSE socket_
    /\ faults' = IF socket_ = "opening" THEN faults + 1 ELSE faults
    /\ emitted' = emit(emitted, [sig |-> "on_disconnected", by |-> "connect"])
    /\ UNCHANGED <<serverSide, reads, closed_, logged_in_, account_created_,
                   client_write_msgs_, client_next_packet_size_, client_rd,
                   client_wr, client_writing, client_done, linkVars, client_enq,
                   client_wire, calls, client_rlog>>

\* ChatClient::login
ClientLogin(username, password) ==
    /\ Requested
    /\ NextCall = [req |-> "Login", username |-> username,
                   password |-> password]
    /\ Writes(LoginPacket(username, password))

\* ChatClient::create_user
ClientCreateUser(username, password) ==
    /\ Requested
    /\ NextCall = [req |-> "CreateUser", username |-> username,
                   password |-> password]
    /\ Writes(CreateUserPacket(username, password))

\* a send_message that does not look at logged_in_
send_message_always(message) == write(ChatMessagePacket(name_, message))

\* ChatClient::send_message: the queue, the outstanding write, the history
send_message(message) ==
    IF logged_in_
    THEN write(ChatMessagePacket(name_, message))
    ELSE [q |-> client_write_msgs_, w |-> client_wr, b |-> client_writing,
          e |-> client_enq]

\* the slot of SendMessage
ClientSendMessage(message) ==
    /\ Requested
    /\ NextCall = [req |-> "SendMessage", message |-> message]
    /\ LET w == send_message(message)
       IN  /\ client_write_msgs_' = w.q
           /\ client_wr' = w.w
           /\ client_writing' = w.b
           /\ client_enq' = w.e
    /\ UNCHANGED <<socket_, connecting, closed_, logged_in_, account_created_,
                   client_next_packet_size_, client_rd, client_done, emitted,
                   client_rlog>>

\* the slot of Close: ChatClient::close
ClientClose ==
    /\ Requested
    /\ NextCall.req = "Close"
    /\ LET c == close(emitted)
       IN  /\ closed_' = c.closed
           /\ socket_' = c.socket
           /\ emitted' = c.log
           /\ client_rd' = c.rd
           /\ client_rlog' = c.rlog
    /\ UNCHANGED <<connecting, logged_in_, account_created_,
                   client_write_msgs_, client_next_packet_size_, client_wr, client_writing,
                   client_done,
                   client_enq>>

\* a read handler that calls close() and reads on
CloseFromRead_reading_on ==
    LET c == close(emitted)
    IN  /\ closed_' = c.closed
        /\ socket_' = c.socket
        /\ emitted' = c.log
        /\ client_rd' = "header"

\* close() called from the completion handler of the outstanding read
CloseFromRead ==
    LET c == close(emitted)
    IN  /\ closed_' = c.closed
        /\ socket_' = c.socket
        /\ emitted' = c.log
        /\ client_rd' = "none"

(***************************************************************************)
(* ChatClient::do_read_header, the completion handler.                     *)
(***************************************************************************)
ClientReadHeaderDone ==
    /\ ~io_stopped
    /\ client_rd = "header"
    /\ socket_ = "open" \/ "read" \in client_done
    /\ client_done' = client_done \ {"read"}
    /\ Len(s2c) >= 4
    /\ LET n == readFromBuffer32(s2c, 0)
       IN  /\ client_next_packet_size_' = n
           /\ IF n > MAX_FRAME_BYTES
              THEN /\ CloseFromRead
                   /\ client_rlog' = note(client_rlog, <<"oversize">>)
              ELSE /\ client_rd' = "body"
                   /\ client_rlog' = note(client_rlog,
                                          <<"header", "read_body">>)
                   /\ UNCHANGED <<closed_, socket_, emitted>>
    /\ s2c' = SubSeq(s2c, 5, Len(s2c))
    /\ UNCHANGED <<serverSide, budgetVars, connecting, logged_in_,
                   account_created_, client_write_msgs_, client_wr, client_writing,
                   client_session, backlog, c2s, client_enq, client_wire,
                   calls>>

\* a handle_packet that keeps logged_in_ when the login failed
client_handle_packet_sticky(packet_data) ==
    LET res == CHOOSE r \in createPacketFromData(packet_data) : TRUE
        type == IF res.res = "packet" THEN res.pkt.type ELSE -1
    IN  [logged_in |-> IF type = LoginSuccess THEN TRUE ELSE logged_in_,
         account_created |-> account_created_,
         log |-> IF type \in {LoginSuccess, LoginFailed}
                 THEN emit(emitted, [sig |-> "on_login_response",
                                     ok |-> type = LoginSuccess])
                 ELSE emitted]

\* ChatClient::handle_packet: the flags and the notifications
client_handle_packet(packet_data) ==
    LET res == CHOOSE r \in createPacketFromData(packet_data) : TRUE
        type == IF res.res = "packet" THEN res.pkt.type ELSE -1
    IN  [logged_in |-> IF type = LoginSuccess THEN TRUE
                       ELSE IF type = LoginFailed THEN FALSE
                       ELSE logged_in_,
         account_created |-> IF type = AccountCreated THEN TRUE
                             ELSE IF type = AccountExists THEN FALSE
                             ELSE account_created_,
         log |-> IF type \in {LoginSuccess, LoginFailed}
                 THEN emit(emitted, [sig |-> "on_login_response",
                                     ok |-> type = LoginSuccess])
                 ELSE IF type \in {AccountCreated, AccountExists}
                 THEN emit(emitted, [sig |-> "on_create_account_response",
                                     ok |-> type = AccountCreated])
                 ELSE IF type = ChatMessage
                 THEN emit(emitted, [sig |-> "on_message_received",
                                     sender |-> res.pkt.sender,
                                     message |-> res.pkt.message])
                 ELSE emitted]

(***************************************************************************)
(* ChatClient::do_read_body, the completion handler.  The server writes    *)
(* only frames of preparePacketForSending, so the payload parses in one    *)
(* way.                                                                    *)
(***************************************************************************)
ClientReadBodyDone ==
    /\ ~io_stopped
    /\ client_rd = "body"
    /\ socket_ = "open" \/ "read" \in client_done
    /\ client_done' = client_done \ {"read"}
    /\ Len(s2c) >= client_next_packet_size_
    /\ LET h == client_handle_packet(SubSeq(s2c, 1, client_next_packet_size_))
       IN  /\ logged_in_' = h.logged_in
           /\ account_created_' = h.account_created
           /\ emitted' = h.log
    /\ client_rd' = "header"
    /\ client_rlog' = note(client_rlog, <<"body", "dispatch", "read_header">>)
    /\ s2c' = SubSeq(s2c, client_next_packet_size_ + 1, Len(s2c))
    /\ UNCHANGED <<serverSide, budgetVars, socket_, connecting, closed_,
                   client_write_msgs_, client_next_packet_size_, client_wr, client_writing,
                   client_session, backlog, c2s, client_enq, client_wire,
                   calls>>

\* a read of the client completes with an error code other than
\* operation_aborted
ClientReadError ==
    /\ ~io_stopped
    /\ client_rd \in {"header", "body"}
    /\ "read" \notin client_done
    /\ socket_ # "open" \/ MayFail
    /\ faults' = IF socket_ # "open" THEN faults ELSE faults + 1
    /\ CloseFromRead
    /\ client_rlog' = note(client_rlog, <<"error">>)
    /\ UNCHANGED <<serverSide, reads, connecting, logged_in_,
                   account_created_, client_write_msgs_,
                   client_next_packet_size_, client_wr, client_writing,
                   client_done, linkVars, client_enq,
                   client_wire, calls>>

\* the read that close() cancelled completes with operation_aborted
ClientReadAborted ==
    /\ ~io_stopped
    /\ client_rd = "aborted"
    /\ client_rd' = "none"
    /\ UNCHANGED <<serverSide, budgetVars, socket_, connecting, closed_,
                   logged_in_, account_created_, client_write_msgs_,
                   client_next_packet_size_, client_wr, client_writing,
                   client_done, linkVars, clientHist>>

(***************************************************************************)
(* ChatClient::do_write, the completion handler.                           *)
(***************************************************************************)
ClientWriteDone ==
    /\ ~io_stopped
    /\ client_wr > 0
    /\ socket_ = "open" \/ "write" \in client_done
    /\ client_done' = client_done \ {"write"}
    /\ c2s' = IF "write" \in client_done THEN c2s ELSE c2s \o client_writing
    /\ client_wire' = IF recording
                      THEN Append(client_wire, client_writing)
                      ELSE client_wire
    /\ client_write_msgs_' = pop_front(client_write_msgs_)
    /\ IF pop_front(client_write_msgs_) # <<>>
       THEN /\ client_wr' = client_wr - 1 + 1
            /\ client_writing' = Head(pop_front(client_write_msgs_))
       ELSE /\ client_wr' = client_wr - 1
            /\ client_writing' = <<>>
    /\ UNCHANGED <<serverSide, budgetVars, socket_, connecting, closed_,
                   logged_in_, account_created_, client_next_packet_size_,
                   client_rd, client_session, backlog, s2c, client_enq,
                   emitted, calls, client_rlog>>

\* the write completes with an error code: the socket is not open, or the
\* connection failed
ClientWriteError ==
    /\ ~io_stopped
    /\ client_wr > Done("write")
    /\ socket_ \in {"none", "closed"} \/ MayFail
    /\ faults' = IF socket_ \in {"none", "closed"} THEN faults ELSE faults + 1
    /\ LET c == close(emitted)
       IN  /\ closed_' = c.closed
           /\ socket_' = c.socket
           /\ emitted' = c.log
           /\ client_rd' = c.rd
           /\ client_rlog' = c.rlog
    /\ client_wr' = client_wr - 1
    /\ client_writing' = <<>>
    /\ UNCHANGED <<serverSide, reads, connecting, logged_in_,
                   account_created_, client_write_msgs_,
                   client_next_packet_size_, linkVars, client_done,
                   client_enq,
                   client_wire, calls>>

(***************************************************************************)
(* ChatClient::stop, called from a thread of the application while the io  *)
(* thread runs io_context_.run().  Each statement is a step of its own.    *)
(***************************************************************************)
\* what the statements of stop() leave alone
StopFrame ==
    UNCHANGED <<srvVars, sessVars, handled, histVars, stopVars, codecVars,
                budgetVars, clientVars, linkVars, clientHist>>

\* Close.emit(): Signal::emit posts the slot of Close to io_context_.  The
\* application stops a client that is connected.
ClientStopEmit ==
    /\ client_stop_pc = "idle"
    /\ socket_ = "open"
    /\ client_stop_pc' = "emit"
    /\ close_posted' = TRUE
    /\ UNCHANGED io_stopped
    /\ StopFrame

\* io_context_.stop(): run() returns as soon as it can and leaves the
\* handlers that wait where they are
ClientStopIo ==
    /\ client_stop_pc = "emit"
    /\ client_stop_pc' = "stop"
    /\ io_stopped' = TRUE
    /\ UNCHANGED close_posted
    /\ StopFrame

\* io_thread_.join() returns: the io thread has left run()
ClientStopJoin ==
    /\ client_stop_pc = "stop"
    /\ io_stopped
    /\ client_stop_pc' = "done"
    /\ UNCHANGED <<close_posted, io_stopped>>
    /\ StopFrame

\* the io thread runs the slot that stop() posted: ChatClient::close
ClientPostedClose ==
    /\ close_posted
    /\ ~io_stopped
    /\ close_posted' = FALSE
    /\ LET c == close(emitted)
       IN  /\ closed_' = c.closed
           /\ socket_' = c.socket
           /\ emitted' = c.log
           /\ client_rd' = c.rd
           /\ client_rlog' = c.rlog
    /\ UNCHANGED <<srvVars, sessVars, handled, histVars, stopVars, codecVars,
                   client_stop_pc, io_stopped, budgetVars, connecting,
                   logged_in_, account_created_, client_write_msgs_,
                   client_next_packet_size_, client_wr, client_writing,
                   client_done, linkVars, client_enq, client_wire, calls>>

\* the raw server the client is connected to writes a frame or a header
PeerWrite ==
    /\ raw_server
    /\ socket_ = "open"
    /\ MayRead
    /\ \E frame \in PeerFrames : s2c' = s2c \o frame
    /\ reads' = reads + 1
    /\ UNCHANGED <<serverSide, faults, clientVars, client_session, backlog,
                   c2s, clientHist>>

Next ==
    \/ Accept
    \/ AcceptError
    \/ \E s \in Sessions : ReadHeaderDone(s)
    \/ \E s \in Sessions : ReadError(s)
    \/ \E s \in Sessions : ReadBodyDone(s)
    \/ \E s \in Sessions : WriteDone(s)
    \/ \E s \in Sessions : WriteError(s)

NextClient ==
    \/ ClientConnect
    \/ ClientResolveError
    \/ ClientConnectDone
    \/ ClientConnectError
    \/ \E u \in Names, p \in Passwords : ClientLogin(u, p)
    \/ \E u \in Names, p \in Passwords : ClientCreateUser(u, p)
    \/ \E m \in Texts : ClientSendMessage(m)
    \/ ClientClose
    \/ ClientReadHeaderDone
    \/ ClientReadBodyDone
    \/ ClientReadError
    \/ ClientReadAborted
    \/ ClientWriteDone
    \/ ClientWriteError

NextLink == Next \/ NextClient

\* the server and raw peers that send every payload
Spec == Init /\ [][Next]_vars

\* the server and raw peers in the broadcast scenario
SpecCast == InitCast /\ [][Next]_vars

\* the server, a ChatClient and a raw peer
SpecLink == InitLink /\ [][NextLink]_vars

\* the server, a raw peer that logs in and chats, and a ChatClient
SpecGuest == InitGuest /\ [][NextLink]_vars

\* the server and raw peers, histories recorded
SpecHist == InitHist /\ [][Next]_vars

NextPeer == NextLink \/ PeerWrite

NextCodec ==
    \/ Prepare
    \/ TakeBody
    \/ Create

\* the codec over every packet and over bytes that are no payload
SpecCodec == InitCodec /\ [][NextCodec]_vars

\* the server and raw peers; the io_context runs the completion handler of
\* every write
SpecReply ==
    /\ InitReply
    /\ [][Next]_vars
    /\ \A s \in Sessions : WF_vars(WriteDone(s))

NextConnect == NextClient \/ PeerWrite

\* the ChatClient with a raw server; the io_context runs every completion
\* handler of async_connect
SpecConnect ==
    /\ InitConnect
    /\ [][NextConnect]_vars
    /\ WF_vars(ClientConnectDone \/ ClientConnectError)

\* the client's handlers, and operations that complete some time before
\* their handlers run
NextLate ==
    \/ NextConnect
    \/ \E op \in {"read", "write"} : ClientCompletes(op)

\* the ChatClient with a raw server, completions and handlers apart
SpecLate == InitLate /\ [][NextLate]_vars

\* the client's handlers and the statements of ChatClient::stop
NextQuit ==
    \/ NextConnect
    \/ ClientStopEmit
    \/ ClientStopIo
    \/ ClientStopJoin
    \/ ClientPostedClose

\* the ChatClient with a raw server, and a thread that stops the client
SpecQuit == InitLate /\ [][NextQuit]_vars

\* the handlers of the io_context and the statements of stop()
NextStop ==
    \/ AcceptTest
    \/ AcceptInsert
    \/ AcceptError
    \/ AcceptAborted
    \/ \E s \in Sessions : ReadHeaderDone(s)
    \/ \E s \in Sessions : ReadError(s)
    \/ \E s \in Sessions : ReadBodyDone(s)
    \/ \E s \in Sessions : WriteDone(s)
    \/ \E s \in Sessions : WriteError(s)
    \/ StopFlag
    \/ StopClose
    \/ StopMove
    \/ StopPost
    \/ StopRun
    \/ StopReturn
    \/ \E s \in Sessions : SessionStop(s)
    \/ \E s \in Sessions : SessionStopThrows(s)
    \/ \E s \in Sessions : ReadAborted(s)
    \/ \E s \in Sessions : WriteAborted(s)

\* the server of run_server: raw peers, and stop() called at any moment
SpecStop == InitStop /\ [][NextStop]_vars

\* the server with a raw peer, the ChatClient with a raw server
SpecPeer == InitPeer /\ [][NextPeer]_vars

\* the server and a ChatClient that connects to it a second time
SpecRelink == InitRelink /\ [][NextLink]_vars

\* the same, with an application that also connects a second time
SpecAgain == InitConnect /\ [][NextPeer]_vars


(***************************************************************************)
(* Properties.  handled describes the handle_packet call of the step that  *)
(* led to the state: its session, the payload, the parsed packet and the   *)
(* state it started from.                                                  *)
(***************************************************************************)
Frame(p) == preparePacketForSending(p)

\* the last step handled a packet of this type
HandledPkt(type) ==
    /\ handled.s # 0
    /\ handled.res.res = "packet"
    /\ handled.res.pkt.type = type

\* the last step left the queue of t as it was
Untouched(t) == write_msgs_[t] = handled.before.q[t]

\* the last step appended exactly this frame to the queue of t
GotOnly(t, frame) == write_msgs_[t] = Append(handled.before.q[t], frame)

\* C1: a ChatMessage handled for a session whose username is empty enqueues
\* exactly one LoginFailed on that session and nothing on any other session
C1_UnauthenticatedChatRejected ==
    (HandledPkt(ChatMessage) /\ handled.before.username[handled.s] = <<>>)
    => /\ GotOnly(handled.s, Frame(LoginFailedPacket))
       /\ \A t \in Sessions \ {handled.s} : Untouched(t)

C1_Witness ==
    /\ HandledPkt(ChatMessage)
    /\ handled.before.username[handled.s] = <<>>
    /\ \E t \in participants_ : t # handled.s /\ username_[t] # <<>>
    /\ GotOnly(handled.s, Frame(LoginFailedPacket))

\* C2: a chat message relayed from an authenticated session S is enqueued
\* exactly once on every other session in the registry, and never on S
C2_BroadcastReachesOthersOnce ==
    (HandledPkt(ChatMessage) /\ handled.before.username[handled.s] # <<>>)
    => LET relay == Frame(ChatMessagePacket(handled.before.username[handled.s],
                                            handled.res.pkt.message))
       IN  /\ \A t \in handled.before.registry \ {handled.s} : GotOnly(t, relay)
           /\ Untouched(handled.s)

C2_Witness ==
    /\ HandledPkt(ChatMessage)
    /\ handled.before.username[handled.s] # <<>>
    /\ handled.s \in handled.before.registry
    /\ Cardinality(handled.before.registry \ {handled.s}) >= 2
    /\ \A t \in handled.before.registry \ {handled.s} :
          Len(write_msgs_[t]) = Len(handled.before.q[t]) + 1

\* C3: every frame a chat handler enqueues for an authenticated session is
\* ChatMessage(username of the session, text of the client), and the handler's
\* result is the same for any two sender fields the client may supply
C3_SenderFieldNeverTrusted ==
    /\ (HandledPkt(ChatMessage) /\ handled.before.username[handled.s] # <<>>)
       => \A t \in Sessions :
             \/ Untouched(t)
             \/ GotOnly(t, Frame(ChatMessagePacket(
                               handled.before.username[handled.s],
                               handled.res.pkt.message)))
    /\ \A s \in alive : \A m \in Texts : \A a \in Senders \cup Names :
          handle_chat_message(s, ChatMessagePacket(a, m), <<s, 0, ChatMessage>>)
          = handle_chat_message(s, ChatMessagePacket(<<>>, m), <<s, 0, ChatMessage>>)

C3_Witness ==
    /\ HandledPkt(ChatMessage)
    /\ handled.before.username[handled.s] # <<>>
    /\ handled.res.pkt.sender # handled.before.username[handled.s]
    /\ \E t \in Sessions \ {handled.s} :
          GotOnly(t, Frame(ChatMessagePacket(handled.before.username[handled.s],
                                             handled.res.pkt.message)))

\* the Login handled by the last step found its credentials in the store
LoginAccepted ==
    /\ HandledPkt(Login)
    /\ handled.res.pkt.username \in DOMAIN handled.before.credentials
    /\ handled.before.credentials[handled.res.pkt.username]
          = handled.res.pkt.password

\* C4: a Login(u,p) that authenticates sets the username of the session to
\* u, enqueues LoginSuccess on it and nothing else, and enqueues
\* ChatMessage("System", u + " has joined the chat.") on every other
\* session in the registry
C4_LoginSuccessEffects ==
    LoginAccepted
    => /\ username_[handled.s] = handled.res.pkt.username
       /\ GotOnly(handled.s, Frame(LoginSuccessPacket))
       /\ \A t \in handled.before.registry \ {handled.s} :
             GotOnly(t, Frame(ChatMessagePacket(
                           SYSTEM, handled.res.pkt.username \o HAS_JOINED)))

C4_Witness ==
    /\ LoginAccepted
    /\ handled.res.pkt.username # <<>>
    /\ handled.s \in handled.before.registry
    /\ Cardinality(handled.before.registry \ {handled.s}) >= 2
    /\ username_[handled.s] = handled.res.pkt.username

\* C5: a Login(u,p) is answered LoginSuccess if and only if a CreateUser(u,p)
\* was answered AccountCreated before, and in every other case LoginFailed
C5_LoginIffAccountCreated ==
    HandledPkt(Login)
    => IF <<handled.res.pkt.username, handled.res.pkt.password>>
             \in handled.before.created_log
       THEN GotOnly(handled.s, Frame(LoginSuccessPacket))
       ELSE GotOnly(handled.s, Frame(LoginFailedPacket))

C5_Witness ==
    /\ HandledPkt(Login)
    /\ <<handled.res.pkt.username, handled.res.pkt.password>> \notin created_log
    /\ \E p \in Passwords : <<handled.res.pkt.username, p>> \in created_log
    /\ GotOnly(handled.s, Frame(LoginFailedPacket))

C5_WitnessSuccess ==
    /\ HandledPkt(Login)
    /\ <<handled.res.pkt.username, handled.res.pkt.password>> \in created_log
    /\ GotOnly(handled.s, Frame(LoginSuccessPacket))

\* C6: a Login that fails enqueues LoginFailed on its session and nothing
\* on any other, and leaves the registry and every username as they were;
\* the session goes on to read the next header
C6_FailedLoginOnlyReported ==
    (HandledPkt(Login) /\ ~LoginAccepted)
    => /\ GotOnly(handled.s, Frame(LoginFailedPacket))
       /\ \A t \in Sessions \ {handled.s} : Untouched(t)
       /\ participants_ = handled.before.registry
       /\ username_ = handled.before.username
       /\ user_credentials_ = handled.before.credentials
       /\ rd[handled.s] = "header"

C6_Witness ==
    /\ HandledPkt(Login)
    /\ ~LoginAccepted
    /\ handled.before.username[handled.s] # <<>>
    /\ handled.res.pkt.username # handled.before.username[handled.s]
    /\ handled.s \in participants_
    /\ username_[handled.s] = handled.before.username[handled.s]

\* C7: once a CreateUser(u,p) was answered AccountCreated, a CreateUser(u,q)
\* is answered AccountExists and the stored password of u stays p
C7_DuplicateAccountRefused ==
    HandledPkt(CreateUser)
    => \A p \in Passwords :
          <<handled.res.pkt.username, p>> \in handled.before.created_log
          => /\ GotOnly(handled.s, Frame(AccountExistsPacket))
             /\ handled.res.pkt.username \in DOMAIN user_credentials_
             /\ user_credentials_[handled.res.pkt.username] = p

C7_Witness ==
    /\ HandledPkt(CreateUser)
    /\ \E p \in Passwords :
          /\ <<handled.res.pkt.username, p>> \in handled.before.created_log
          /\ p # handled.res.pkt.password
          /\ user_credentials_[handled.res.pkt.username] = p
    /\ GotOnly(handled.s, Frame(AccountExistsPacket))

\* C8: a step changes the username of a session only if it handles a Login
\* of that session that authenticates, and then to the username of the Login
C8_UsernameOnlyByLogin ==
    [][\A s \in Sessions :
          username_'[s] # username_[s]
          => /\ handled'.s = s
             /\ handled'.res.res = "packet"
             /\ handled'.res.pkt.type = Login
             /\ handled'.res.pkt.username = username_'[s]
             /\ authenticate_user(user_credentials_, handled'.res.pkt.username,
                                  handled'.res.pkt.password)]_vars

\* an account was created on a session that stays unauthenticated
C8_Witness ==
    /\ HandledPkt(CreateUser)
    /\ GotOnly(handled.s, Frame(AccountCreatedPacket))
    /\ handled.res.pkt.username # <<>>
    /\ username_[handled.s] = <<>>

(***************************************************************************)
(* Order of the frames on a connection.                                    *)
(***************************************************************************)
\* the frames of a history of deliver() calls
Frames(entries) == [i \in DOMAIN entries |-> entries[i].frame]

\* the frames written on a connection and the frames that still wait are
\* the frames enqueued, in the order of the enqueueing
InOrder(written, waiting, enqueued) == written \o waiting = enqueued

\* C9: on every connection, a server session or the client, the frames are
\* written to the socket in exactly the order in which they were enqueued
C9_WrittenInEnqueueOrder ==
    /\ \A s \in Sessions : InOrder(wire[s], write_msgs_[s], Frames(enq[s]))
    /\ InOrder(client_wire, client_write_msgs_, client_enq)

\* a session and the client have each written a frame while two different
\* frames wait behind it
C9_Witness ==
    /\ \E s \in Sessions :
          /\ Len(wire[s]) >= 1
          /\ Len(write_msgs_[s]) >= 2
          /\ write_msgs_[s][1] # write_msgs_[s][2]
    /\ Len(client_wire) >= 1
    /\ Len(client_write_msgs_) >= 2
    /\ client_write_msgs_[1] # client_write_msgs_[2]

\* where the history of session t holds the delivery made for payload k of
\* session src
Delivered(t, src, k) ==
    {p \in DOMAIN enq[t] : enq[t][p].src = src /\ enq[t][p].k = k}

\* frame f1 is on the wire of session t before every frame f2
WrittenBefore(t, f1, f2) ==
    \A q \in DOMAIN wire[t] :
        wire[t][q] = f2 => \E p \in 1..(q - 1) : wire[t][p] = f1

\* C10: when a session relays two chat messages, every other session that
\* was registered at both broadcasts has the first relay enqueued before
\* the second, once each, and written before the second
C10_RelaysKeepSenderOrder ==
    \A i, j \in DOMAIN relays :
        (i < j /\ relays[i].src = relays[j].src)
        => \A t \in relays[i].rcpt \cap relays[j].rcpt :
              LET first == Delivered(t, relays[i].src, relays[i].k)
                  second == Delivered(t, relays[j].src, relays[j].k)
              IN  /\ Cardinality(first) = 1
                  /\ Cardinality(second) = 1
                  /\ \A p \in first, q \in second :
                        /\ p < q
                        /\ enq[t][p].frame # enq[t][q].frame
                           => WrittenBefore(t, enq[t][p].frame, enq[t][q].frame)

\* two relays of one session with different texts were both written to a
\* session registered at both broadcasts
C10_Witness ==
    \E i, j \in DOMAIN relays :
        /\ i < j
        /\ relays[i].src = relays[j].src
        /\ \E t \in relays[i].rcpt \cap relays[j].rcpt :
              \E p, q \in DOMAIN wire[t] :
                  /\ p < q
                  /\ wire[t][p] # wire[t][q]
                  /\ \E a \in Delivered(t, relays[i].src, relays[i].k) :
                        enq[t][a].frame = wire[t][p]
                  /\ \E b \in Delivered(t, relays[j].src, relays[j].k) :
                        enq[t][b].frame = wire[t][q]

(***************************************************************************)
(* Headers that announce a length outside 0 < length <= MAX_FRAME_BYTES.   *)
(***************************************************************************)
\* C11: after a header that announces more than MAX_FRAME_BYTES the server
\* session is out of the registry with no read outstanding, and the client
\* has run close() and has no read outstanding
C11_OversizeHeaderCloses ==
    /\ \A s \in Sessions :
          next_packet_size_[s] > MAX_FRAME_BYTES
          => s \notin participants_ /\ rd[s] = "none"
    /\ client_next_packet_size_ > MAX_FRAME_BYTES
       => closed_ /\ client_rd = "none"

\* a session and the client have both read an oversize header
C11_Witness ==
    /\ \E s \in alive : next_packet_size_[s] > MAX_FRAME_BYTES
    /\ client_next_packet_size_ > MAX_FRAME_BYTES
    /\ socket_ = "closed"

\* C12: a header that announces 0 bytes is refused: no read of a body is
\* issued for it on the server or on the client, and no empty payload is
\* dispatched to handle_packet
C12_ZeroHeaderCloses ==
    /\ \A s \in Sessions : rd[s] = "body" => next_packet_size_[s] > 0
    /\ client_rd = "body" => client_next_packet_size_ > 0
    /\ handled.s # 0 => handled.data # <<>>

(***************************************************************************)
(* The client's notifications and flags.                                   *)
(***************************************************************************)
\* the positions of the on_disconnected notifications that close() emitted
CloseNotices ==
    {i \in DOMAIN emitted :
        emitted[i].sig = "on_disconnected" /\ emitted[i].by = "close"}

\* the request the client handled last
LastCall == plan[calls]

\* this step is the slot of a request of the given kind running
Handles(req) == MayCall /\ NextCall.req = req /\ calls' = calls + 1

\* C13: close() takes effect once: on_disconnected is emitted by close()
\* exactly once when closed_ is set and never before, a close() on a closed
\* client changes nothing, and no later step closes the socket or emits
\* the notification of close() again
C13_CloseIdempotent ==
    /\ [](/\ Cardinality(CloseNotices) = IF closed_ THEN 1 ELSE 0
          /\ closed_ => close(emitted) = [closed |-> TRUE, socket |-> socket_,
                                          log |-> emitted, rd |-> client_rd,
                                          rlog |-> client_rlog])
    /\ [][/\ closed_ => closed_'
          /\ (closed_ /\ Handles("Close"))
             => UNCHANGED <<clientVars, linkVars, client_enq, client_wire,
                            emitted>>
          /\ (closed_ /\ socket_ # "closed") => socket_' # "closed"]_vars

\* Close was requested a second time
C13_Witness ==
    /\ closed_
    /\ calls >= 2
    /\ LastCall.req = "Close"
    /\ \E i \in 1..(calls - 1) : plan[i].req = "Close"
    /\ Cardinality(CloseNotices) = 1

\* the position of the last Connect request in the client's signals, or 0
LastConnect ==
    LET at == {i \in DOMAIN emitted : emitted[i].sig = "Connect"}
    IN  IF at = {} THEN 0 ELSE CHOOSE i \in at : \A j \in at : j <= i

\* the on_disconnected notifications since the last Connect request
DisconnectsOfAttempt ==
    {i \in DOMAIN emitted :
        i > LastConnect /\ emitted[i].sig = "on_disconnected"}

\* C15: on_disconnected is emitted at most once per connection attempt
C15_OneDisconnectPerAttempt ==
    LastConnect > 0 => Cardinality(DisconnectsOfAttempt) <= 1

\* C16: a SendMessage handled while logged_in_ is false changes nothing of
\* the client: queue, outstanding write, flags, read pipeline, socket
C16_SendMessageNeedsLogin ==
    [][(~logged_in_ /\ Handles("SendMessage"))
       => UNCHANGED <<clientVars, linkVars, client_enq, client_wire,
                      emitted>>]_vars

\* SendMessage was handled on a connected client that is not logged in
C16_Witness ==
    /\ calls >= 1
    /\ LastCall.req = "SendMessage"
    /\ socket_ = "open"
    /\ ~logged_in_
    /\ \A i \in DOMAIN emitted : emitted[i].sig # "on_login_response"
    /\ client_enq = <<>>
    /\ client_write_msgs_ = <<>>
    /\ client_wr = 0

\* C17: once close() has run the client is not logged in, and a
\* SendMessage enqueues nothing
C17_ClosedClientNotAuthenticated ==
    /\ [](closed_ => ~logged_in_)
    /\ [][(closed_ /\ Handles("SendMessage"))
          => /\ client_write_msgs_' = client_write_msgs_
             /\ client_enq' = client_enq]_vars

\* the positions of the on_login_response notifications
LoginResponses == {i \in DOMAIN emitted : emitted[i].sig = "on_login_response"}

\* the payload of the frame whose body the client is reading
BodyAtClient == SubSeq(s2c, 1, client_next_packet_size_)

\* this step is ChatClient::do_read_body's handler for this payload
ClientHandles(payload) ==
    /\ client_rd = "body"
    /\ client_rd' = "header"
    /\ BodyAtClient = payload

\* C18: logged_in_ is what the last login reply said, false when there was
\* none; handling LoginSuccess or LoginFailed sets it and emits
\* on_login_response with that value; a Login or CreateUser request only
\* enqueues its frame
C18_LoginStateFromReplies ==
    /\ [](logged_in_ =
            IF LoginResponses = {} THEN FALSE
            ELSE emitted[CHOOSE i \in LoginResponses :
                            \A j \in LoginResponses : j <= i].ok)
    /\ [][/\ ClientHandles(<<LoginSuccess>>)
             => /\ logged_in_'
                /\ emitted' = Append(emitted, [sig |-> "on_login_response",
                                                ok |-> TRUE])
          /\ ClientHandles(<<LoginFailed>>)
             => /\ ~logged_in_'
                /\ emitted' = Append(emitted, [sig |-> "on_login_response",
                                                ok |-> FALSE])
          /\ (Handles("Login") \/ Handles("CreateUser"))
             => /\ logged_in_' = logged_in_
                /\ emitted' = emitted
                /\ client_enq' =
                       Append(client_enq,
                              preparePacketForSending(
                                  [type |-> IF NextCall.req = "Login"
                                            THEN Login ELSE CreateUser,
                                   username |-> NextCall.username,
                                   password |-> NextCall.password]))
          /\ logged_in_' # logged_in_
             => \/ ClientHandles(<<LoginSuccess>>)
                \/ ClientHandles(<<LoginFailed>>)]_vars

\* the client requested a login, was told it succeeded and then that it
\* failed
C18_Witness ==
    /\ \E i \in 1..calls : plan[i].req = "Login"
    /\ \E i, j \in LoginResponses : i < j /\ emitted[i].ok /\ ~emitted[j].ok
    /\ ~logged_in_

(***************************************************************************)
(* Sessions that leave, and sessions that join late.                       *)
(***************************************************************************)
\* where the history of session t holds a system message of the leave of
\* session s
LeftNotices(t, s) ==
    {p \in DOMAIN enq[t] : enq[t][p].src = s /\ enq[t][p].k = 0}

\* C14: the leave of a session is broadcast at most once: no session is
\* given the system message of the leave of one session twice
C14_LeaveAtMostOnce ==
    \A s, t \in Sessions : Cardinality(LeftNotices(t, s)) <= 1

\* C19: a relayed chat message is delivered only to sessions that were in
\* the registry at the broadcast, so a session accepted later never gets
\* it; and a registered, logged-in session gets exactly the relay
\* ChatMessage("a", t) when a session logged in as "a" sends t
C19_NoBacklog ==
    /\ \A i \in DOMAIN relays :
          \A t \in Sessions :
              Delivered(t, relays[i].src, relays[i].k) # {}
              => t \in relays[i].rcpt
    /\ (HandledPkt(ChatMessage) /\ handled.before.username[handled.s] = <<97>>)
       => \A t \in handled.before.registry \ {handled.s} :
              handled.before.username[t] # <<>>
              => GotOnly(t, Frame(ChatMessagePacket(<<97>>,
                                                    handled.res.pkt.message)))

\* a session accepted after one relay was registered and logged in at the
\* next one, and was given only that one
C19_Witness ==
    \E i, j \in DOMAIN relays :
        \E t \in participants_ :
            /\ i < j
            /\ t # relays[i].src
            /\ t \notin relays[i].rcpt
            /\ Delivered(t, relays[i].src, relays[i].k) = {}
            /\ t \in relays[j].rcpt
            /\ \E p, q \in DOMAIN enq[t] :
                  /\ p < q
                  /\ enq[t][p].frame = Frame(LoginSuccessPacket)
                  /\ q \in Delivered(t, relays[j].src, relays[j].k)

\* the payload is a status packet, has an unrecognized tag or is empty
NotARequest(data) ==
    data = <<>> \/ data[1] \notin {Login, CreateUser, ChatMessage}

\* C20: a status packet, a payload with an unrecognized tag and an empty
\* payload are ignored: no queue, username, credential or registry
\* changes, and the session reads the next header
C20_UnexpectedPayloadIgnored ==
    (handled.s # 0 /\ NotARequest(handled.data))
    => /\ \A t \in Sessions : Untouched(t)
       /\ wr = handled.before.w
       /\ username_ = handled.before.username
       /\ user_credentials_ = handled.before.credentials
       /\ participants_ = handled.before.registry
       /\ handled.s \in participants_ <=> handled.s \in handled.before.registry
       /\ rd[handled.s] = "header"
       /\ ~crashed

\* a logged-in session with another session registered sent a status packet
C20_Witness ==
    /\ handled.s # 0
    /\ handled.data = <<AccountCreated>>
    /\ username_[handled.s] # <<>>
    /\ handled.s \in participants_
    /\ Cardinality(participants_) = 2

(***************************************************************************)
(* Leaving.  A step is a leave of session s when one of its handlers ends  *)
(* in an error: its read stops, or its write stops with the queue kept.    *)
(***************************************************************************)
SessionFault == faults' = faults + 1 /\ accept_pending' = accept_pending

LeaveOf(s) ==
    /\ SessionFault
    /\ \/ rd[s] # "none" /\ rd'[s] = "none"
       \/ wr[s] > 0 /\ wr'[s] < wr[s] /\ write_msgs_'[s] = write_msgs_[s]

\* C21: leave(session) takes the session out of the registry and then, if
\* and only if its username is not empty, enqueues ChatMessage("System",
\* username + " has left the chat.") on every session still registered; a
\* session that never logged in leaves without any broadcast, and the
\* leaver never gets its own leave message.
C21_LeaveAnnouncedToTheRest ==
    [][\A s \in Sessions :
          LeaveOf(s) =>
              /\ participants_' = participants_ \ {s}
              /\ \A t \in Sessions :
                    write_msgs_'[t] =
                        IF username_[s] # <<>> /\ t \in participants_'
                        THEN Append(write_msgs_[t],
                                    Frame(left_msg(username_[s])))
                        ELSE write_msgs_[t]]_vars

\* a logged-in session has left and a registered one holds its leave
\* message, while another session left without a name
C21_Witness ==
    \E s, t, u \in alive :
        /\ s \notin participants_ /\ username_[s] # <<>>
        /\ t \in participants_
        /\ write_msgs_[t] # <<>>
        /\ write_msgs_[t][Len(write_msgs_[t])] = Frame(left_msg(username_[s]))
        /\ u \notin participants_ /\ username_[u] = <<>>
        /\ rd[s] = "none" /\ rd[u] = "none"

(***************************************************************************)
(* Shutdown.                                                               *)
(***************************************************************************)
\* stop() has emptied the registry
RegistryMoved == stop_pc \in {"move", "post", "run", "done"}

\* C22: after ChatServer::stop() has been called, no newly accepted
\* connection is inserted into the registry, the registry is empty, and
\* ChatSession::stop() has been executed for every session registered at the
\* time of the call before stop() returns.
C22_StopQuiesces ==
    /\ [][stop_pc # "idle" => participants_' \subseteq participants_]_vars
    /\ [](RegistryMoved => participants_ = {})
    /\ [](stop_pc = "done" => at_stop \subseteq stopped)

(***************************************************************************)
(* Faults of one session.                                                  *)
(***************************************************************************)
\* the step gives session s a payload that is no packet
MalformedRead(s) == handled'.s = s /\ handled'.data \in Malformed

\* the step leaves every session but s, and the server, as they were; a
\* queue may get the leave message of s
OthersUnaffected(s) ==
    /\ crashed' = crashed
    /\ user_credentials_' = user_credentials_
    /\ accept_pending' = accept_pending
    /\ \A t \in Sessions \ {s} :
          /\ t \in participants_ => t \in participants_'
          /\ username_'[t] = username_[t]
          /\ \/ write_msgs_'[t] = write_msgs_[t]
             \/ write_msgs_'[t] = Append(write_msgs_[t],
                                        Frame(left_msg(username_[s])))

\* C23: a read error, a write error, an oversize header or a malformed
\* payload on one session affects only that session: every other session
\* stays registered with its username and write queue untouched (apart from
\* a possible leave message), the credential store is unchanged and the
\* server keeps its pending accept.
C23_FaultsStayLocal ==
    [][\A s \in Sessions :
          LeaveOf(s) \/ MalformedRead(s) => OthersUnaffected(s)]_vars

(***************************************************************************)
(* Connecting.                                                             *)
(***************************************************************************)
\* the notifications with which connect() has answered the last Connect
ConnectOutcomes ==
    {i \in DOMAIN emitted :
        /\ i > LastConnect
        /\ \/ emitted[i].sig = "on_connected"
           \/ emitted[i].sig = "on_disconnected" /\ emitted[i].by = "connect"}

\* the step emits the notification sig
Emits(sig) ==
    /\ Len(emitted') = Len(emitted) + 1
    /\ emitted'[Len(emitted')].sig = sig

\* the step emits on_disconnected from connect()
EmitsConnectFailure ==
    /\ Len(emitted') > Len(emitted)
    /\ emitted'[Len(emitted')] = [sig |-> "on_disconnected", by |-> "connect"]

RepliedOneOf(frames) ==
    \E f \in frames : GotOnly(handled.s, f)

StatusFrames ==
    {Frame(LoginSuccessPacket), Frame(LoginFailedPacket),
     Frame(AccountCreatedPacket), Frame(AccountExistsPacket)}

\* session s has ended a read or a write with leave()
Errored(s) == s \in alive /\ s \notin participants_

\* the k-th frame enqueued on s is a status reply
ReplyAt(s, k) == Len(enq[s]) >= k /\ enq[s][k].frame \in StatusFrames

\* C25: every Login or CreateUser packet handled for a session puts exactly
\* one status packet on that session's queue (LoginSuccess or LoginFailed,
\* AccountCreated or AccountExists), and as long as the connection reports
\* no read or write error the reply is eventually written to the socket.
C25_StatusReplyWritten ==
    /\ [](HandledPkt(Login) =>
             RepliedOneOf({Frame(LoginSuccessPacket), Frame(LoginFailedPacket)}))
    /\ [](HandledPkt(CreateUser) =>
             RepliedOneOf({Frame(AccountCreatedPacket),
                           Frame(AccountExistsPacket)}))
    /\ \A s \in Sessions : \A k \in 1..(ReplyReads + LinkFaults) :
          ReplyAt(s, k) ~> (Len(wire[s]) >= k \/ Errored(s))

(***************************************************************************)
(* The codec.                                                              *)
(***************************************************************************)
\* C26: for every packet of every kind and every choice of its string
\* fields, the empty string included, createPacketFromData applied to the
\* serialized payload returns a packet of the same kind whose fields equal
\* the original's.
C26_RoundTrip ==
    (codec_pc = "done" /\ original # NoOriginal) => created = Parsed(original)

\* a chat message with two empty strings, and one with the longest
\* strings, have made the round trip
C26_Witness ==
    /\ codec_pc = "done"
    /\ original \in {ChatMessagePacket(<<>>, <<>>),
                      LoginPacket(<<0, 255>>, <<97, 97>>)}
    /\ created.res = "packet"
    /\ created.pkt = original

\* the frame is a size and that many bytes, which are the payload of p
Framed(frame, p) ==
    /\ Len(frame) >= 5
    /\ readFromBuffer32(frame, 0) = Len(frame) - 4
    /\ readFromBuffer32(frame, 0) = Len(Payload(p))
    /\ SubSeq(frame, 5, Len(frame)) = Payload(p)
    /\ frame[5] = p.type
    /\ frame[5] \in 0..6

\* C27: preparePacketForSending(p) is the 4-byte length L followed by
\* exactly L bytes, where L is the byte length of the serialized payload of
\* p, and the first byte of the payload is the kind tag of p, one of 0..6.
C27_LengthThenPayload ==
    codec_pc = "frame" =>
        /\ Framed(bytes, original)
        /\ Framed(preparePacketForSending(original), original)
        /\ Framed(preparePacketForSendingCopy(original), original)

\* the frames of a status packet and of a packet with the longest strings
C27_Witness ==
    /\ codec_pc = "frame"
    /\ original \in {AccountExistsPacket,
                      CreateUserPacket(<<97, 0>>, <<255, 255>>)}
    /\ Len(bytes) \in {5, 17}

\* C28: createPacketFromData returns no packet for the empty byte sequence
\* and no packet for any buffer whose first byte is not one of the tags
\* 0..6, and the call changes nothing else.
C28_NoPacketForUntyped ==
    [][(codec_pc = "payload" /\ codec_pc' = "done"
        /\ (bytes = <<>> \/ bytes[1] \notin 0..6))
       => /\ created' = NoPacket
          /\ UNCHANGED <<bytes, original, srvVars, sessVars, clientVars>>]_vars

\* createPacketFromData has been given the empty sequence, or a tag 255
\* followed by what would be a packet's fields
C28_Witness ==
    /\ codec_pc = "done"
    /\ bytes \in {<<>>, <<255, 1, 0, 0, 0, 97, 0, 0, 0, 0>>}
    /\ created = NoPacket

\* C29: a payload with a valid tag and fewer bytes than its fields demand
\* fails with MalformedPacket: no packet is produced and no byte outside
\* the buffer is read (the process does not end there), so that the
\* pipeline drops the payload and goes on with the next header.
C29_TruncatedRejected ==
    (codec_pc = "done" /\ bytes \in Truncated) => created = NoPacket
(***************************************************************************)
(* One write at a time.                                                    *)
(***************************************************************************)
\* a connection with queue q, w outstanding writes and the buffer b given
\* to async_write: at most one write, and it writes the front of the queue
FrontInFlight(q, w, b) ==
    /\ w <= 1
    /\ w = 1 => q # <<>> /\ b = Head(q)

\* a step that takes a connection from queue q with w outstanding writes to
\* queue qn with wn of them: an enqueue starts a write exactly when it found
\* the queue empty, a completion that pops the front starts the next write
\* exactly when it leaves the queue non-empty, and no other step starts one
StartsByRule(q, w, qn, wn) ==
    /\ Len(qn) > Len(q) => wn = w + (IF q = <<>> THEN 1 ELSE 0)
    /\ Len(qn) < Len(q) => /\ w > 0
                           /\ qn = Tail(q)
                           /\ wn = w - 1 + (IF qn # <<>> THEN 1 ELSE 0)
    /\ Len(qn) = Len(q) => wn <= w

\* C30: on every connection, a server session or the client, at most one
\* asynchronous write is outstanding at any time; a write is started only by
\* an enqueue that finds the queue empty or by the completion of the
\* previous write that leaves the queue non-empty, and the buffer being
\* written is always the front element of the queue
C30_OneWriteAtATime ==
    /\ [](\A s \in Sessions :
              FrontInFlight(write_msgs_[s], wr[s], writing[s]))
    /\ []FrontInFlight(client_write_msgs_, client_wr, client_writing)
    /\ [][\A s \in Sessions :
              StartsByRule(write_msgs_[s], wr[s], write_msgs_'[s], wr'[s])]_vars
    /\ [][StartsByRule(client_write_msgs_, client_wr,
                       client_write_msgs_', client_wr')]_vars

\* a session and the client each have a write outstanding with a second
\* frame waiting behind it, after an earlier write of theirs completed
C30_Witness ==
    /\ \E s \in Sessions : /\ wr[s] = 1
                            /\ Len(write_msgs_[s]) >= 2
                            /\ wire[s] # <<>>
    /\ client_wr = 1
    /\ Len(client_write_msgs_) >= 2
    /\ client_wire # <<>>
(***************************************************************************)
(* The thread that touches the registry.                                   *)
(***************************************************************************)
\* the step is one of the thread that called ChatServer::stop(): it executes
\* the next statement of stop() itself, outside every handler
StepOfCaller == stop_pc' # stop_pc

\* the io thread is inside the accept handler, past its test and before
\* participants_.insert, while the caller of stop() is about to move and
\* clear the registry
MoveDuringAccept == accepting /\ stop_pc = "close"

\* C32: every mutation of the registry (insert on accept, erase in leave,
\* move and clear in stop) executes on the executor thread, in a handler of
\* the io_context; stop() called from another thread while the executor
\* thread runs never changes the registry itself and is never about to
\* change it while the accept handler is about to insert
C32_RegistryOnExecutorThread ==
    /\ [][participants_' # participants_ => ~StepOfCaller]_vars
    /\ []~MoveDuringAccept
(***************************************************************************)
(* The queue of a closed connection.                                       *)
(***************************************************************************)
\* leave has removed session s and the object still exists: a handler of
\* its own holds it
Removed(s) ==
    /\ s \in alive
    /\ s \notin participants_
    /\ rd[s] # "none" \/ wr[s] > 0

\* C34: once a connection is Closed (ChatClient::close() has run, or leave
\* has removed a server session after a read or write error) its pending
\* write queue is discarded: the queue is empty in every later state
C34_QueueDiscardedWhenClosed ==
    /\ closed_ => client_write_msgs_ = <<>>
    /\ \A s \in Sessions : Removed(s) => write_msgs_[s] = <<>>
(***************************************************************************)
(* Packets on behalf of a session that has left.                           *)
(***************************************************************************)
\* the entries the step adds to the history of session t
NewEntries(t) ==
    {enq'[t][i] : i \in (Len(enq[t]) + 1)..Len(enq'[t])}

\* C37: every packet the server gives to other sessions on behalf of a
\* session (its join message, its relayed chat messages, its leave message)
\* is produced while that session is in the registry: after leave(session)
\* has run, what is read from that session causes no broadcast to other
\* sessions and no second leave message
C37_NothingOnBehalfOfTheDeparted ==
    [][\A t \in Sessions : \A e \in NewEntries(t) :
           e.src # t => e.src \in participants_]_vars
(***************************************************************************)
(* Who a broadcast reaches.                                                *)
(***************************************************************************)
\* the sessions other than s that the step gives a packet of session s
GivenBy(s) ==
    {t \in Sessions \ {s} : \E e \in NewEntries(t) : e.src = s}

\* the step broadcasts for session s: its login is accepted, its chat
\* message is relayed, or it leaves the registry with a username
Broadcasts(s) ==
    \/ username_'[s] # username_[s]
    \/ relays' # relays /\ handled'.s = s
    \/ s \in participants_ /\ s \notin participants_' /\ username_[s] # <<>>

\* the packet the client's body handler is given, when it is a ChatMessage
ChatAtClient ==
    IF client_rd = "body" /\ Len(s2c) >= client_next_packet_size_
    THEN LET res == CHOOSE r \in createPacketFromData(BodyAtClient) : TRUE
         IN  IF res.res = "packet" /\ res.pkt.type = ChatMessage
             THEN {res.pkt} ELSE {}
    ELSE {}

\* C35: the recipients of a broadcast are the sessions in the registry,
\* logged in or not: a step that broadcasts for session s (its join, its
\* relayed chat message, its leave) gives the packet to every other session
\* of the registry and to no other; and the client raises
\* on_message_received for every ChatMessage it reads, whether or not it is
\* logged in
C35_RecipientsByMembership ==
    /\ [][\A s \in Sessions :
              Broadcasts(s) => GivenBy(s) = participants_ \ {s}]_vars
    /\ [][\A p \in ChatAtClient :
              (client_rd = "body" /\ client_rd' = "header")
              => emitted' = Append(emitted, [sig |-> "on_message_received",
                                             sender |-> p.sender,
                                             message |-> p.message])]_vars

\* the session of a client that never logged in was given the join, the
\* chat message and the leave of another session, and the client raised
\* on_message_received
C35_Witness ==
    /\ client_session # 0
    /\ username_[client_session] = <<>>
    /\ ~logged_in_
    /\ \E i, j, k \in DOMAIN enq[client_session] :
          /\ enq[client_session][i].src # client_session
          /\ enq[client_session][i].k # 0
          /\ enq[client_session][i].cause = Login
          /\ enq[client_session][j].k # 0
          /\ enq[client_session][j].cause = ChatMessage
          /\ enq[client_session][k].k = 0
    /\ \E i \in DOMAIN emitted : emitted[i].sig = "on_message_received"
(***************************************************************************)
(* The read loop of a connection.                                          *)
(***************************************************************************)
ReadIssues == {"read_header", "read_body"}
ReadEnds == {"header", "body", "oversize", "error", "cancelled"}

\* the reads of the first n events of a history that have not ended
Outstanding(log, n) ==
    Cardinality({i \in 1..n : log[i] \in ReadIssues})
    - Cardinality({i \in 1..n : log[i] \in ReadEnds})

\* the last event before position i that issues a read or begins a
\* connection; 0 when there is none
IssueBefore(log, i) ==
    LET earlier == {j \in 1..(i - 1) : log[j] \in ReadIssues \cup {"connected"}}
    IN  IF earlier = {} THEN 0
        ELSE CHOOSE j \in earlier : \A k \in earlier : k <= j

\* the history of the reads of one endpoint keeps to the read loop
ReadLoop(log) ==
    /\ \A n \in 0..Len(log) : Outstanding(log, n) \in {0, 1}
    /\ \A i \in DOMAIN log :
          /\ log[i] \in ReadIssues
             => LET j == IssueBefore(log, i)
                IN  IF j = 0 \/ log[j] = "connected"
                    THEN log[i] = "read_header"
                    ELSE /\ log[i] # log[j]
                         /\ \A k \in (j + 1)..(i - 1) :
                               log[k] \notin {"error", "oversize"}
          /\ log[i] = "body" => i < Len(log) /\ log[i + 1] = "dispatch"
          /\ log[i] = "dispatch" => i > 1 /\ log[i - 1] = "body"

\* C31: each connection has at most one read outstanding at any time;
\* header reads and body reads alternate, starting with a header read;
\* every body read with no error is given to the packet handler exactly
\* once and before the next header read is issued; after a read error or
\* an oversize header no further read is issued on that connection
C31_ReadLoop ==
    /\ [](\A s \in Sessions : ReadLoop(rlog[s]))
    /\ []ReadLoop(client_rlog)
    /\ [][\A s \in Sessions :
              Len(rlog'[s]) > Len(rlog[s])
              => LET added == SubSeq(rlog'[s], Len(rlog[s]) + 1, Len(rlog'[s]))
                 IN  (\E i \in DOMAIN added : added[i] = "dispatch")
                     <=> (handled'.s = s /\ Len(handled'.data) =
                                               next_packet_size_[s])]_vars

\* a session and the client have each had a body dispatched and a read
\* that ended with an error or an oversize header, and the client has
\* connected again after that
C31_Witness ==
    /\ \E s \in Sessions :
          /\ \E i \in DOMAIN rlog[s] : rlog[s][i] = "dispatch"
          /\ rlog[s][Len(rlog[s])] \in {"error", "oversize"}
    /\ \E i, j, k \in DOMAIN client_rlog :
          /\ i < j /\ j < k
          /\ client_rlog[i] = "dispatch"
          /\ client_rlog[j] \in {"error", "oversize"}
          /\ client_rlog[k] = "connected"
(***************************************************************************)
(* The closed flag of the client.                                          *)
(***************************************************************************)
\* the step is a read or a write of the client ending with an error code
\* other than operation_aborted
LinkDrop ==
    \/ /\ Len(client_rlog') = Len(client_rlog) + 1
       /\ client_rlog'[Len(client_rlog')] = "error"
    \/ /\ socket_ = "open"
       /\ client_wr' < client_wr
       /\ client_write_msgs_' = client_write_msgs_

\* the step runs the body of close(): the flag, the socket, the notification
ClosesNow ==
    /\ socket_' = "closed"
    /\ emitted' = Append(emitted, [sig |-> "on_disconnected", by |-> "close"])

\* C38: closed_ is set only by close() and never reset: after the first
\* close() is_open() is false in every later state, and a read or write
\* error after a later successful Connect on the same client emits no
\* further on_disconnected
C38_ClosedForGood ==
    [][/\ closed_ => closed_'
       /\ (~closed_ /\ closed_') => ClosesNow
       /\ (closed_ /\ LinkDrop) => emitted' = emitted]_vars

\* a closed client has connected again and its read has then failed
C38_Witness ==
    /\ closed_
    /\ socket_ = "open"
    /\ client_rlog # <<>>
    /\ client_rlog[Len(client_rlog)] = "error"
    /\ Cardinality({i \in DOMAIN emitted : emitted[i].sig = "on_connected"}) = 2
    /\ Cardinality(CloseNotices) = 1
(***************************************************************************)
(* What the client and the server think of a login.                        *)
(***************************************************************************)
\* C36: with one client connected to one server session and in-order
\* delivery, whenever the client's is_logged_in() is true the username of
\* the server session it is connected to is non-empty
C36_ClientLoggedInImpliesSession ==
    (logged_in_ /\ client_session # 0) => username_[client_session] # <<>>
(***************************************************************************)
(* Handlers that run after close().                                        *)
(***************************************************************************)
\* the step runs a completion handler of a read or of a write: the handler
\* of an operation that had completed, of a read that ended, or of a write
HandlerStep ==
    \/ client_done' # client_done /\ client_done' \subseteq client_done
    \/ client_rd # "none" /\ client_rd' = "none"
    \/ client_wr' < client_wr

\* the bodies given to handle_packet so far
Dispatched(log) == Cardinality({i \in 1..Len(log) : log[i] = "dispatch"})

\* the step does nothing that can be seen
NoOpStep ==
    /\ logged_in_' = logged_in_
    /\ account_created_' = account_created_
    /\ emitted' = emitted
    /\ client_write_msgs_' = client_write_msgs_
    /\ Dispatched(client_rlog') = Dispatched(client_rlog)
    /\ client_rd' \in {"header", "body"} => client_rd' = client_rd
    /\ client_wr' <= client_wr
    /\ client_writing' \in {client_writing, <<>>}

\* C33: once ChatClient::close() has run and the socket is closed, a read or
\* write completion handler that runs later dispatches no packet, emits
\* nothing, changes neither the login flag nor the write queue and issues
\* no read and no write, also when its operation had completed with success
\* before close() ran
C33_LateHandlersAreNoOps ==
    [][(closed_ /\ socket_ = "closed" /\ HandlerStep) => NoOpStep]_vars
(***************************************************************************)
(* ChatClient::stop.                                                       *)
(***************************************************************************)
\* C39: when ChatClient::stop() is called on a started and connected
\* client, the close() it posted has been executed when stop() returns: the
\* slot does not wait any more, the socket is closed and close() has
\* emitted on_disconnected exactly once
C39_StopRunsPostedClose ==
    client_stop_pc = "done"
        => /\ ~close_posted
           /\ closed_
           /\ socket_ = "closed"
           /\ Cardinality(CloseNotices) = 1
====
